---- MODULE Spec2Model ----
(***************************************************************************)
(* A model of the WiBLE provisioning core: the StateManager finite-state   *)
(* machine, the SecurityManager session, the ProvisioningOrchestrator and  *)
(* the WiFiManager / BLEManager operations the orchestrator drives.        *)
(***************************************************************************)
EXTENDS Integers, Sequences, FiniteSets, TLC

\* ------------------------------------------------------------------------
\* Bounds of the model
\* ------------------------------------------------------------------------

\* millis() ranges over 0..MaxTime
MaxTime == 1

\* an operation runs only if it leaves at most this many states in the history
MaxRun == 6

\* the DRBG is drawn from at most this many times
MaxDraws == 5

\* in the assembled system the DRBG is drawn from at most this many times
MaxSystemDraws == 4

\* plaintexts handed to encrypt are at most this many bytes long
MaxPlaintextLen == 256

\* with callbacks registered, handleEvent runs while the history holds at
\* most this many states
MaxHookRun == 2

\* with guarded transitions registered, handleEvent runs while the history
\* holds at most this many states
MaxGuardRun == 1

\* ------------------------------------------------------------------------
\* StateManager: enumerations
\* ------------------------------------------------------------------------

ProvisioningState ==
    {"IDLE", "BLE_ADVERTISING", "BLE_CONNECTED", "AUTHENTICATING",
     "RECEIVING_CREDENTIALS", "CONNECTING_WIFI", "VALIDATING_CONNECTION",
     "PROVISIONED", "ERROR"}

StateEvent ==
    {"INIT_REQUESTED", "RESET_REQUESTED",
     "START_ADVERTISING", "STOP_ADVERTISING",
     "BLE_CLIENT_CONNECTED", "BLE_CLIENT_DISCONNECTED",
     "AUTH_STARTED", "AUTH_SUCCESS", "AUTH_FAILED", "AUTH_TIMEOUT",
     "CREDENTIALS_RECEIVED", "CREDENTIALS_INVALID",
     "WIFI_CONNECT_STARTED", "WIFI_CONNECTED", "WIFI_CONNECTION_FAILED",
     "WIFI_DISCONNECTED",
     "VALIDATION_STARTED", "VALIDATION_SUCCESS", "VALIDATION_FAILED",
     "ERROR_OCCURRED", "ERROR_RECOVERED",
     "CONNECTION_TIMEOUT", "PROVISIONING_TIMEOUT"}

\* The two event names the orchestrator passes that StateEvent does not
\* declare; no transition is keyed on them.
OrchestratorEvent == {"START_WIFI_CONNECT", "WIFI_DISCONNECT"}

ErrorCode == {"NONE", "UNKNOWN_ERROR"}

\* payload strings handed to handleEvent(event, data)
EventData == {"", "fault"}

maxHistorySize == 10

VARIABLES
    stateManager,     \* StateManager: currentState, previousState, isInTransition,
                      \*   context, transitions, stateHistory
    securityManager,  \* SecurityManager: flags, key pair, shared secret, session key
    wifiManager,      \* WiFiManager: initialized, config
    WiFi,             \* the Wi-Fi station: status and the network last begun
    preferences,      \* the key/value store, namespace wible_creds
    bleManager,       \* BLEManager: initialized, callbacks, server advertising
    wible,            \* WiBLE: initialized
    now,              \* the value millis() returns
    evLog,            \* the handleEvent calls of the last operation, in order
    notified,         \* the payloads the last operation handed to BLEManager::notify
    connects,         \* the WiFiManager::connect calls of the last operation
    cryptoLog,        \* the encrypt / decrypt calls of the last operation
    captured,         \* the last EncryptedMessage a peer could record off the link
    usedIvs           \* the <<key, IV>> pairs encrypt has used so far

vars == <<stateManager, securityManager, wifiManager, WiFi, preferences,
          bleManager, wible, now, evLog, notified, connects, cryptoLog, captured, usedIvs>>

\* ------------------------------------------------------------------------
\* StateManager: operations as functions of the object
\* ------------------------------------------------------------------------

\* StateTransition(from, evt, to): guard and action are null
StateTransition(from, evt, to) ==
    [fromState |-> from, event |-> evt, toState |-> to, guard |-> "null",
     action |-> "null"]

\* StateTransition::withGuard; a guard is named by the value it returns
withGuard(tr, guardFn) == [tr EXCEPT !.guard = guardFn]

\* StateTransition::withAction
withAction(tr, actionFn) == [tr EXCEPT !.action = actionFn]

\* !guard || guard()
canTransition(tr) == tr.guard = "null" \/ tr.guard = "true"

\* a variant that replaces the element stored under the key
addTransitionOverwrites(transitions, tr) ==
    [k \in DOMAIN transitions \cup {<<tr.fromState, tr.event>>} |->
        IF k = <<tr.fromState, tr.event>> THEN tr ELSE transitions[k]]

\* std::map::insert keeps the element already stored under the key
addTransition(transitions, tr) ==
    IF <<tr.fromState, tr.event>> \in DOMAIN transitions
    THEN transitions
    ELSE transitions @@ (<<tr.fromState, tr.event>> :> tr)

RECURSIVE addAll(_, _)
addAll(transitions, trs) ==
    IF trs = <<>> THEN transitions
    ELSE addAll(addTransition(transitions, Head(trs)), Tail(trs))

defaultTransitionList ==
    << StateTransition("IDLE", "START_ADVERTISING", "BLE_ADVERTISING"),
       StateTransition("BLE_ADVERTISING", "BLE_CLIENT_CONNECTED", "BLE_CONNECTED"),
       StateTransition("BLE_CONNECTED", "AUTH_STARTED", "AUTHENTICATING"),
       StateTransition("AUTHENTICATING", "AUTH_SUCCESS", "RECEIVING_CREDENTIALS"),
       StateTransition("RECEIVING_CREDENTIALS", "CREDENTIALS_RECEIVED", "CONNECTING_WIFI"),
       StateTransition("CONNECTING_WIFI", "WIFI_CONNECTED", "PROVISIONED"),
       StateTransition("CONNECTING_WIFI", "WIFI_CONNECTION_FAILED", "ERROR"),
       StateTransition("ERROR", "ERROR_RECOVERED", "IDLE"),
       StateTransition("BLE_CONNECTED", "BLE_CLIENT_DISCONNECTED", "BLE_ADVERTISING"),
       StateTransition("AUTHENTICATING", "BLE_CLIENT_DISCONNECTED", "BLE_ADVERTISING"),
       StateTransition("RECEIVING_CREDENTIALS", "BLE_CLIENT_DISCONNECTED", "BLE_ADVERTISING") >>

\* a variant that registers the list without its recovery row
defineDefaultTransitionsNoRecovery(transitions) ==
    addAll(transitions,
           SelectSeq(defaultTransitionList, LAMBDA tr : tr.event # "ERROR_RECOVERED"))

defineDefaultTransitions(transitions) == addAll(transitions, defaultTransitionList)

\* StateMachineContext::reset
contextReset(context, t) ==
    [context EXCEPT !.lastError = "NONE",
                    !.lastErrorMessage = "",
                    !.stateEntryTime = t,
                    !.retryCount = 0]

\* a variant that drops the oldest state one entry early
recordStateInHistoryEarly(history, state) ==
    LET pushed == Append(history, state)
    IN  IF Len(pushed) >= maxHistorySize THEN Tail(pushed) ELSE pushed

\* StateManager::getStateHistory(maxCount)
getStateHistory(sm, maxCount) ==
    IF Len(sm.stateHistory) <= maxCount THEN sm.stateHistory
    ELSE SubSeq(sm.stateHistory, Len(sm.stateHistory) - maxCount + 1,
                Len(sm.stateHistory))

recordStateInHistory(history, state) ==
    LET pushed == Append(history, state)
    IN  IF Len(pushed) > maxHistorySize THEN Tail(pushed) ELSE pushed

\* one invocation of a hook: which hook, the state it is about, the state
\* the transition leaves, the event, and what getCurrentState() and
\* isTransitioning() return inside it
HookCall(hook, state, from, event, sm) ==
    [hook |-> hook, state |-> state, from |-> from, event |-> event,
     current |-> sm.currentState, inTransition |-> sm.isInTransition]

RECURSIVE handleEvent(_, _, _, _)

\* a variant that calls the entry callback before it records the state
enterStateCallbackFirst(sm, newState, t) ==
    LET stamped == [sm EXCEPT !.context.stateEntryTime = t]
        entryCall == IF sm.entryCallback = "null" THEN <<>>
                     ELSE << HookCall("entry", newState, sm.previousState, "", stamped) >>
        inner == IF sm.entryCallback = "raises" /\ newState # "ERROR"
                 THEN handleEvent(stamped, "ERROR_OCCURRED", "", t)
                 ELSE [sm |-> stamped, ret |-> TRUE, hooks |-> <<>>]
    IN  [sm |-> [inner.sm EXCEPT
                   !.stateHistory = recordStateInHistory(inner.sm.stateHistory, newState)],
         hooks |-> entryCall \o inner.hooks]

\* enterState: stamp the entry time, record the state, call the entry
\* callback; a callback of the kind "raises" calls
\* handleEvent(ERROR_OCCURRED) from inside, except on entering ERROR
enterState(sm, newState, t) ==
    LET entered == [sm EXCEPT !.context.stateEntryTime = t,
                              !.stateHistory = recordStateInHistory(sm.stateHistory, newState)]
        entryCall == IF sm.entryCallback = "null" THEN <<>>
                     ELSE << HookCall("entry", newState, sm.previousState, "", entered) >>
    IN  IF sm.entryCallback = "raises" /\ newState # "ERROR"
        THEN LET inner == handleEvent(entered, "ERROR_OCCURRED", "", t)
             IN  [sm |-> inner.sm, hooks |-> entryCall \o inner.hooks]
        ELSE [sm |-> entered, hooks |-> entryCall]

\* a variant that notifies the transition listener after the new state was
\* entered
executeTransitionNotifiesLast(sm, tr, event, t) ==
    IF ~canTransition(tr)
    THEN [sm |-> sm, ret |-> FALSE, hooks |-> <<>>]
    ELSE LET started == [sm EXCEPT !.isInTransition = TRUE]
             exitCall == IF sm.exitCallback
                         THEN << HookCall("exit", sm.currentState, sm.currentState, event, started) >>
                         ELSE <<>>
             actionCall == IF tr.action # "null"
                           THEN << HookCall("action", tr.toState, sm.currentState, event, started) >>
                           ELSE <<>>
             entered == enterState([started EXCEPT !.previousState = sm.currentState,
                                                   !.currentState = tr.toState],
                                   tr.toState, t)
             notifyCall == IF sm.transitionCallback
                           THEN << HookCall("transition", tr.toState, sm.currentState, event,
                                            entered.sm) >>
                           ELSE <<>>
         IN  [sm |-> [entered.sm EXCEPT !.isInTransition = FALSE],
              ret |-> TRUE,
              hooks |-> exitCall \o actionCall \o entered.hooks \o notifyCall]

\* a variant that leaves the current state before it evaluates the guard
executeTransitionExitsFirst(sm, tr, event, t) ==
    LET started == [sm EXCEPT !.isInTransition = TRUE]
        exitCall == IF sm.exitCallback
                    THEN << HookCall("exit", sm.currentState, sm.currentState, event, started) >>
                    ELSE <<>>
    IN  IF ~canTransition(tr)
        THEN [sm |-> sm, ret |-> FALSE, hooks |-> exitCall]
        ELSE LET actionCall == IF tr.action # "null"
                               THEN << HookCall("action", tr.toState, sm.currentState, event, started) >>
                               ELSE <<>>
                 notifyCall == IF sm.transitionCallback
                               THEN << HookCall("transition", tr.toState, sm.currentState, event,
                                                started) >>
                               ELSE <<>>
                 entered == enterState([started EXCEPT !.previousState = sm.currentState,
                                                       !.currentState = tr.toState],
                                       tr.toState, t)
             IN  [sm |-> [entered.sm EXCEPT !.isInTransition = FALSE],
                  ret |-> TRUE,
                  hooks |-> exitCall \o actionCall \o notifyCall \o entered.hooks]

\* executeTransition; the result carries the object, the return value and
\* the hooks called, in order
executeTransition(sm, tr, event, t) ==
    IF ~canTransition(tr)
    THEN [sm |-> sm, ret |-> FALSE, hooks |-> <<>>]
    ELSE LET started == [sm EXCEPT !.isInTransition = TRUE]
             exitCall == IF sm.exitCallback
                         THEN << HookCall("exit", sm.currentState, sm.currentState, event, started) >>
                         ELSE <<>>
             actionCall == IF tr.action # "null"
                           THEN << HookCall("action", tr.toState, sm.currentState, event, started) >>
                           ELSE <<>>
             notifyCall == IF sm.transitionCallback
                           THEN << HookCall("transition", tr.toState, sm.currentState, event,
                                            started) >>
                           ELSE <<>>
             entered == enterState([started EXCEPT !.previousState = sm.currentState,
                                                   !.currentState = tr.toState],
                                   tr.toState, t)
         IN  [sm |-> [entered.sm EXCEPT !.isInTransition = FALSE],
              ret |-> TRUE,
              hooks |-> exitCall \o actionCall \o notifyCall \o entered.hooks]

\* a variant that stamps the entry time before looking the event up
handleEventStampsFirst(sm, event, data, t) ==
    LET stamped == [sm EXCEPT !.context.stateEntryTime = t]
    IN  IF <<sm.currentState, event>> \in DOMAIN sm.transitions
        THEN executeTransition(stamped, sm.transitions[<<sm.currentState, event>>], event, t)
        ELSE IF event = "RESET_REQUESTED"
        THEN executeTransition(stamped, StateTransition(sm.currentState, event, "IDLE"), event, t)
        ELSE IF event = "ERROR_OCCURRED"
        THEN executeTransition([stamped EXCEPT !.context.lastErrorMessage = data],
                               StateTransition(sm.currentState, event, "ERROR"), event, t)
        ELSE [sm |-> stamped, ret |-> FALSE, hooks |-> <<>>]

\* a variant whose catch-all also completes provisioning on a link-up report
handleEventLinkUpCatchAll(sm, event, data, t) ==
    IF <<sm.currentState, event>> \in DOMAIN sm.transitions
    THEN executeTransition(sm, sm.transitions[<<sm.currentState, event>>], event, t)
    ELSE IF event = "RESET_REQUESTED"
    THEN executeTransition(sm, StateTransition(sm.currentState, event, "IDLE"), event, t)
    ELSE IF event = "ERROR_OCCURRED"
    THEN executeTransition([sm EXCEPT !.context.lastErrorMessage = data],
                           StateTransition(sm.currentState, event, "ERROR"), event, t)
    ELSE IF event = "VALIDATION_SUCCESS"
    THEN executeTransition(sm, StateTransition(sm.currentState, event, "PROVISIONED"), event, t)
    ELSE [sm |-> sm, ret |-> FALSE, hooks |-> <<>>]

\* a variant that takes RESET_REQUESTED for handled when already in IDLE
handleEventNoSelfReset(sm, event, data, t) ==
    IF <<sm.currentState, event>> \in DOMAIN sm.transitions
    THEN executeTransition(sm, sm.transitions[<<sm.currentState, event>>], event, t)
    ELSE IF event = "RESET_REQUESTED"
    THEN IF sm.currentState = "IDLE"
         THEN [sm |-> sm, ret |-> FALSE, hooks |-> <<>>]
         ELSE executeTransition(sm, StateTransition(sm.currentState, event, "IDLE"), event, t)
    ELSE IF event = "ERROR_OCCURRED"
    THEN executeTransition([sm EXCEPT !.context.lastErrorMessage = data],
                           StateTransition(sm.currentState, event, "ERROR"), event, t)
    ELSE [sm |-> sm, ret |-> FALSE, hooks |-> <<>>]

\* a variant that keeps the first error message while in ERROR
handleEventKeepsFirstError(sm, event, data, t) ==
    IF <<sm.currentState, event>> \in DOMAIN sm.transitions
    THEN executeTransition(sm, sm.transitions[<<sm.currentState, event>>], event, t)
    ELSE IF event = "RESET_REQUESTED"
    THEN executeTransition(sm, StateTransition(sm.currentState, event, "IDLE"), event, t)
    ELSE IF event = "ERROR_OCCURRED"
    THEN executeTransition(IF sm.currentState = "ERROR" THEN sm
                           ELSE [sm EXCEPT !.context.lastErrorMessage = data],
                           StateTransition(sm.currentState, event, "ERROR"), event, t)
    ELSE [sm |-> sm, ret |-> FALSE, hooks |-> <<>>]

\* a variant that falls back to the catch-alls when the guard of the
\* registered transition fails
handleEventFallsBack(sm, event, data, t) ==
    IF /\ <<sm.currentState, event>> \in DOMAIN sm.transitions
       /\ canTransition(sm.transitions[<<sm.currentState, event>>])
    THEN executeTransition(sm, sm.transitions[<<sm.currentState, event>>], event, t)
    ELSE IF event = "RESET_REQUESTED"
    THEN executeTransition(sm, StateTransition(sm.currentState, event, "IDLE"), event, t)
    ELSE IF event = "ERROR_OCCURRED"
    THEN executeTransition([sm EXCEPT !.context.lastErrorMessage = data],
                           StateTransition(sm.currentState, event, "ERROR"), event, t)
    ELSE [sm |-> sm, ret |-> FALSE, hooks |-> <<>>]

\* handleEvent(event, data)
handleEvent(sm, event, data, t) ==
    IF <<sm.currentState, event>> \in DOMAIN sm.transitions
    THEN executeTransition(sm, sm.transitions[<<sm.currentState, event>>], event, t)
    ELSE IF event = "RESET_REQUESTED"
    THEN executeTransition(sm, StateTransition(sm.currentState, event, "IDLE"), event, t)
    ELSE IF event = "ERROR_OCCURRED"
    THEN executeTransition([sm EXCEPT !.context.lastErrorMessage = data],
                           StateTransition(sm.currentState, event, "ERROR"), event, t)
    ELSE [sm |-> sm, ret |-> FALSE, hooks |-> <<>>]

\* StateManager::initialize
smInitialize(sm, t) ==
    [sm EXCEPT !.transitions = defineDefaultTransitions(sm.transitions),
               !.context = contextReset(sm.context, t)]

\* what a caller can observe of the object: its fields, and whether any
\* transition is registered
Observed(sm) ==
    [currentState |-> sm.currentState, previousState |-> sm.previousState,
     isInTransition |-> sm.isInTransition, context |-> sm.context,
     stateHistory |-> sm.stateHistory,
     registered |-> DOMAIN sm.transitions # {},
     entryCallback |-> sm.entryCallback, exitCallback |-> sm.exitCallback,
     transitionCallback |-> sm.transitionCallback]

\* one entry of evLog: a handleEvent call, the object before and after it
EventCall(before, event, data, res) ==
    [event |-> event, data |-> data, ret |-> res.ret,
     before |-> Observed(before), after |-> Observed(res.sm),
     hooks |-> res.hooks]

\* StateManager::reset
smReset(sm, t) ==
    handleEvent([sm EXCEPT !.context = contextReset(sm.context, t),
                           !.stateHistory = <<>>],
                "RESET_REQUESTED", "", t)

\* ------------------------------------------------------------------------
\* Byte strings and the library primitives SecurityManager calls
\* ------------------------------------------------------------------------

Byte == 0..255

RECURSIVE SumSeq(_)
SumSeq(s) == IF s = <<>> THEN 0 ELSE (Head(s) + SumSeq(Tail(s))) % 65536

\* The key-agreement group: mbedtls_ecdh_* over Curve25519 is stood in for by
\* Diffie-Hellman in the multiplicative group modulo GroupP, generator GroupG.
GroupP == 251
GroupG == 6

RECURSIVE PowMod(_, _, _)
PowMod(b, e, p) == IF e = 0 THEN 1 ELSE (b * PowMod(b, e - 1, p)) % p

\* mbedtls_mpi_read_binary: big-endian bytes to a number (kept reduced)
RECURSIVE ReadBinary(_, _)
ReadBinary(bytes, acc) ==
    IF bytes = <<>> THEN acc
    ELSE ReadBinary(Tail(bytes), (acc * 256 + Head(bytes)) % GroupP)

\* mbedtls_mpi_size(&grp.P)
MpiSize == 32

\* mbedtls_mpi_write_binary: a number as MpiSize big-endian bytes
WriteBinary(x) == [i \in 1..MpiSize |-> IF i = MpiSize THEN x ELSE 0]

\* mbedtls_ctr_drbg_random: the n bytes of draw number c; draws do not repeat
RandomBytes(n, c) == [i \in 1..n |-> (c * 16 + i) % 256]

\* the private scalar of draw number c
RandomScalar(c) == c + 2

\* SHA-256 stood in for by a 32-byte digest of the input
hash(data) == [i \in 1..32 |-> (SumSeq(data) * 31 + Len(data) + i * 17) % 256]

\* AES-256-CBC stood in for by a keyed, chained byte substitution:
\* each ciphertext byte mixes the plaintext byte, the key byte and the byte
\* 16 positions back (the IV for the first block).
RECURSIVE aesCbcEncryptFrom(_, _, _, _)
aesCbcEncryptFrom(key, iv, plain, done) ==
    IF Len(done) >= Len(plain) THEN done
    ELSE LET base == Len(done)
             size == IF Len(plain) - base < 16 THEN Len(plain) - base ELSE 16
             block == [i \in 1..size |->
                         LET prev == IF base = 0 THEN iv[i] ELSE done[base - 16 + i]
                             k    == key[((base + i - 1) % Len(key)) + 1]
                         IN  (plain[base + i] + prev + k) % 256]
         IN  aesCbcEncryptFrom(key, iv, plain, done \o block)

aesCbcEncrypt(key, iv, plain) == aesCbcEncryptFrom(key, iv, plain, <<>>)

aesCbcDecrypt(key, iv, cipher) ==
    [i \in 1..Len(cipher) |->
        LET prev == IF i <= 16 THEN iv[i] ELSE cipher[i - 16]
            k    == key[((i - 1) % Len(key)) + 1]
        IN  (cipher[i] - prev - k + 512) % 256]

\* ------------------------------------------------------------------------
\* SecurityManager
\* ------------------------------------------------------------------------

sessionTimeoutMs == 300000

\* a variant that adds no padding to data that already fills its blocks
pkcs7PadToBlock(data, blockSize) ==
    LET padding == (blockSize - (Len(data) % blockSize)) % blockSize
    IN  data \o [i \in 1..padding |-> padding]

pkcs7Pad(data, blockSize) ==
    LET padding == blockSize - (Len(data) % blockSize)
    IN  data \o [i \in 1..padding |-> padding]

\* a variant that trusts the last byte and does not verify the padding bytes
pkcs7UnpadLastByteOnly(data) ==
    IF data = <<>> THEN <<>>
    ELSE LET padding == data[Len(data)]
         IN  IF padding > Len(data) \/ padding = 0 THEN <<>>
             ELSE SubSeq(data, 1, Len(data) - padding)

pkcs7Unpad(data) ==
    IF data = <<>> THEN <<>>
    ELSE LET padding == data[Len(data)]
         IN  IF padding > Len(data) \/ padding = 0 THEN <<>>
             ELSE IF \E i \in 0..(padding - 1) : data[Len(data) - i] # padding
             THEN <<>>
             ELSE SubSeq(data, 1, Len(data) - padding)

\* a variant that leaves the IV seed in place
sessionKeyClearKeepsIv(sk) == [sk EXCEPT !.key = <<>>, !.sessionId = ""]

\* SessionKey::clear
sessionKeyClear(sk) == [sk EXCEPT !.key = <<>>, !.iv = <<>>, !.sessionId = ""]

\* SecurityUtils::base64Encode (a placeholder in the source)
base64Encode(data) == ""

\* SecurityManager::initialize
secInitialize(sec) == [sec EXCEPT !.initialized = TRUE]

\* SecurityManager::generateKeyPair
generateKeyPair(sec, t) ==
    IF ~sec.initialized THEN [sec |-> sec, ret |-> FALSE]
    ELSE [sec |-> [sec EXCEPT
                     !.d = RandomScalar(sec.drbg),
                     !.drbg = sec.drbg + 1,
                     !.keyPair = [publicKey |-> WriteBinary(PowMod(GroupG, RandomScalar(sec.drbg), GroupP)),
                                  generatedAt |-> t,
                                  isValid |-> TRUE]],
          ret |-> TRUE]

\* mbedtls_ecdh_compute_shared: fails without a private scalar, for a peer
\* value wider than the curve and when the shared value is zero
ecdhComputeShared(d, peerPublicKey) ==
    IF d = 0 \/ Len(peerPublicKey) > MpiSize THEN 0
    ELSE PowMod(ReadBinary(peerPublicKey, 0), d, GroupP)

\* SecurityManager::computeSharedSecret
computeSharedSecret(sec, peerPublicKey) ==
    IF ~sec.initialized \/ peerPublicKey = <<>> THEN [sec |-> sec, ret |-> FALSE]
    ELSE IF ecdhComputeShared(sec.d, peerPublicKey) = 0 THEN [sec |-> sec, ret |-> FALSE]
    ELSE [sec |-> [sec EXCEPT !.sharedSecret =
                      WriteBinary(ecdhComputeShared(sec.d, peerPublicKey))],
          ret |-> TRUE]

\* a variant that keeps the shared secret after the derivation
deriveSessionKeyKeepsSecret(sec, t) ==
    IF sec.sharedSecret = <<>> THEN [sec |-> sec, ret |-> FALSE]
    ELSE [sec |-> [sec EXCEPT
                     !.sessionKey = [key |-> hash(sec.sharedSecret),
                                     iv |-> RandomBytes(16, sec.drbg),
                                     createdAt |-> t,
                                     expiresAt |-> t + sessionTimeoutMs,
                                     sessionId |-> base64Encode(RandomBytes(16, sec.drbg + 1))],
                     !.drbg = sec.drbg + 2,
                     !.aesKey = hash(sec.sharedSecret),
                     !.sessionEstablished = TRUE,
                     !.sessionStartTime = t],
          ret |-> TRUE]

\* SecurityManager::deriveSessionKey (millis() stays far below the uint32_t
\* wrap within MaxTime, so expiresAt does not wrap)
deriveSessionKey(sec, t) ==
    IF sec.sharedSecret = <<>> THEN [sec |-> sec, ret |-> FALSE]
    ELSE [sec |-> [sec EXCEPT
                     !.sessionKey = [key |-> hash(sec.sharedSecret),
                                     iv |-> RandomBytes(16, sec.drbg),
                                     createdAt |-> t,
                                     expiresAt |-> t + sessionTimeoutMs,
                                     sessionId |-> base64Encode(RandomBytes(16, sec.drbg + 1))],
                     !.drbg = sec.drbg + 2,
                     !.aesKey = hash(sec.sharedSecret),
                     !.sessionEstablished = TRUE,
                     !.sessionStartTime = t,
                     !.sharedSecret = <<>>],
          ret |-> TRUE]

\* a variant that ends the session without clearing the session key
secResetKeepsKey(sec, t) ==
    LET cleared == [sec EXCEPT !.sessionEstablished = FALSE]
    IN  IF sec.config.enablePerfectForwardSecrecy
        THEN generateKeyPair(cleared, t).sec
        ELSE cleared

\* SecurityManager::reset (terminateSession calls it)
secReset(sec, t) ==
    LET cleared == [sec EXCEPT !.sessionEstablished = FALSE,
                               !.sessionKey = sessionKeyClear(sec.sessionKey)]
    IN  IF sec.config.enablePerfectForwardSecrecy
        THEN generateKeyPair(cleared, t).sec
        ELSE cleared

terminateSession(sec, t) == secReset(sec, t)

\* EncryptedMessage::isValid
messageIsValid(msg) == msg.ciphertext # <<>>

\* a variant that decrypts with whatever key the AES context still holds
decryptNoSessionCheck(sec, msg) ==
    IF ~messageIsValid(msg) \/ sec.aesKey = <<>> THEN <<>>
    ELSE IF Len(msg.ciphertext) % 16 # 0 THEN <<>>
    ELSE pkcs7Unpad(aesCbcDecrypt(sec.aesKey, msg.iv, msg.ciphertext))

\* SecurityManager::decrypt; mbedtls_aes_crypt_cbc rejects a length that is
\* not a multiple of 16
decrypt(sec, msg) ==
    IF ~sec.sessionEstablished \/ ~messageIsValid(msg) THEN <<>>
    ELSE IF Len(msg.ciphertext) % 16 # 0 THEN <<>>
    ELSE pkcs7Unpad(aesCbcDecrypt(sec.aesKey, msg.iv, msg.ciphertext))

\* a variant that encrypts every message under the IV of the session key
encryptSessionIv(sec, plaintext) ==
    IF ~sec.sessionEstablished
    THEN [sec |-> sec, msg |-> [iv |-> <<>>, ciphertext |-> <<>>]]
    ELSE [sec |-> [sec EXCEPT !.drbg = sec.drbg + 1],
          msg |-> [iv |-> sec.sessionKey.iv,
                   ciphertext |-> aesCbcEncrypt(sec.aesKey, sec.sessionKey.iv,
                                                pkcs7Pad(plaintext, 16))]]

\* SecurityManager::encrypt: the object after the call and the message
encrypt(sec, plaintext) ==
    IF ~sec.sessionEstablished
    THEN [sec |-> sec, msg |-> [iv |-> <<>>, ciphertext |-> <<>>]]
    ELSE [sec |-> [sec EXCEPT !.drbg = sec.drbg + 1],
          msg |-> [iv |-> RandomBytes(16, sec.drbg),
                   ciphertext |-> aesCbcEncrypt(sec.aesKey, RandomBytes(16, sec.drbg),
                                                pkcs7Pad(plaintext, 16))]]

\* SecurityManager::cleanup: the mbedTLS contexts are freed, the key pair and
\* the session key cleared
secCleanup(sec) ==
    [sec EXCEPT !.d = 0, !.aesKey = <<>>,
                !.keyPair = [publicKey |-> <<>>, generatedAt |-> sec.keyPair.generatedAt,
                             isValid |-> FALSE],
                !.sessionKey = sessionKeyClear(sec.sessionKey),
                !.initialized = FALSE,
                !.sessionEstablished = FALSE]

\* SecurityManager::isSessionEstablished
isSessionEstablished(sec) == sec.sessionEstablished

\* SecurityManager(): the object after construction
NewSecurityManager ==
    [initialized |-> FALSE, sessionEstablished |-> FALSE, sessionStartTime |-> 0,
     config |-> [enablePerfectForwardSecrecy |-> TRUE],
     keyPair |-> [publicKey |-> <<>>, generatedAt |-> 0, isValid |-> FALSE],
     d |-> 0, drbg |-> 0,
     sharedSecret |-> <<>>,
     aesKey |-> <<>>,
     sessionKey |-> [key |-> <<>>, iv |-> <<>>, createdAt |-> 0, expiresAt |-> 0,
                     sessionId |-> ""]]

\* ------------------------------------------------------------------------
\* Strings as byte sequences (String::indexOf, String::substring)
\* ------------------------------------------------------------------------

MinOf(S) == CHOOSE x \in S : \A y \in S : x <= y

\* zero-based index of the first occurrence of pat at or after from, or -1
indexOf(str, pat, from) ==
    LET hits == { i \in from..(Len(str) - Len(pat)) :
                    SubSeq(str, i + 1, i + Len(pat)) = pat }
    IN  IF hits = {} THEN -1 ELSE MinOf(hits)

\* the bytes at zero-based positions from..to-1
substring(str, from, to) == SubSeq(str, from + 1, to)

Contains(str, pat) == indexOf(str, pat, 0) # -1

KeySsid == <<34, 115, 115, 105, 100, 34, 58, 34>>
KeyPass == <<34, 112, 97, 115, 115, 34, 58, 34>>
StrQuote == <<34>>
StatusOpen == <<123, 34, 115, 116, 97, 116, 117, 115, 34, 58, 34>>
StatusMid == <<34, 44, 34, 109, 115, 103, 34, 58, 34>>
StatusClose == <<34, 125>>
StrSuccess == <<83, 85, 67, 67, 69, 83, 83>>
StrError == <<69, 82, 82, 79, 82>>
StrConnectedTo == <<67, 111, 110, 110, 101, 99, 116, 101, 100, 32, 116, 111, 32>>
StrDecryptionFailed == <<68, 101, 99, 114, 121, 112, 116, 105, 111, 110, 32, 102, 97, 105, 108, 101, 100>>
StrInvalidFormat == <<73, 110, 118, 97, 108, 105, 100, 32, 102, 111, 114, 109, 97, 116>>
StrWiFiDisconnected == <<87, 105, 70, 105, 32, 68, 105, 115, 99, 111, 110, 110, 101, 99, 116, 101, 100>>

\* ------------------------------------------------------------------------
\* WiFiCredentials and ProvisioningOrchestrator
\* ------------------------------------------------------------------------

\* WiFiCredentials::isValid
credentialsIsValid(creds) ==
    creds.ssid # <<>> /\ Len(creds.ssid) <= 32 /\ Len(creds.password) <= 64

\* a variant that starts the field one byte early, on the opening quote
parseFieldFromQuote(json, key) ==
    LET start == indexOf(json, key, 0)
    IN  IF start = -1 THEN <<>>
        ELSE LET end == indexOf(json, StrQuote, start + 7)
             IN  IF end = -1 THEN <<>> ELSE substring(json, start + 7, end)

\* the field that follows key in json, up to the next quote; empty if absent
parseField(json, key) ==
    LET start == indexOf(json, key, 0)
    IN  IF start = -1 THEN <<>>
        ELSE LET end == indexOf(json, StrQuote, start + 8)
             IN  IF end = -1 THEN <<>> ELSE substring(json, start + 8, end)

\* ProvisioningOrchestrator::parseCredentials
parseCredentials(json) ==
    [ssid |-> parseField(json, KeySsid), password |-> parseField(json, KeyPass)]

\* the payload sendResponse hands to BLEManager::notify
sendResponse(status, message) ==
    StatusOpen \o status \o StatusMid \o message \o StatusClose

\* one entry of notified: the payload, and whether a session was established
\* when it was handed to BLEManager::notify
Notification(sec, payload) ==
    [payload |-> payload, session |-> isSessionEstablished(sec)]

\* ProvisioningOrchestrator::handleCredentials up to the call of
\* wifiManager->connect: the state manager after it, the handleEvent calls,
\* the status notifications, and the credentials handed to connect (if any)
handleCredentials(sm, sec, data, t) ==
    LET r1 == handleEvent(sm, "CREDENTIALS_RECEIVED", "", t)
        c1 == EventCall(sm, "CREDENTIALS_RECEIVED", "", r1)
        session == isSessionEstablished(sec)
        decryptedData ==
            IF session
            THEN decrypt(sec, [iv |-> SubSeq(data, 1, 16),
                               ciphertext |-> SubSeq(data, 17, Len(data))])
            ELSE data
        creds == parseCredentials(decryptedData)
        r2 == handleEvent(r1.sm, "START_WIFI_CONNECT", "", t)
        c2 == EventCall(r1.sm, "START_WIFI_CONNECT", "", r2)
    IN  IF session /\ Len(data) <= 16
        THEN [sm |-> r1.sm, calls |-> <<c1>>, notified |-> <<>>, connect |-> <<>>]
        ELSE IF decryptedData = <<>>
        THEN [sm |-> r1.sm, calls |-> <<c1>>,
              notified |-> << Notification(sec, sendResponse(StrError, StrDecryptionFailed)) >>,
              connect |-> <<>>]
        ELSE IF ~credentialsIsValid(creds)
        THEN [sm |-> r1.sm, calls |-> <<c1>>,
              notified |-> << Notification(sec, sendResponse(StrError, StrInvalidFormat)) >>,
              connect |-> <<>>]
        ELSE [sm |-> r2.sm, calls |-> <<c1, c2>>, notified |-> <<>>,
              connect |-> << [ssid |-> creds.ssid, password |-> creds.password,
                              session |-> session,
                              accepted |-> r1.ret,
                              state |-> r2.sm.currentState] >>]

\* ------------------------------------------------------------------------
\* WiFiManager and the key/value store
\* ------------------------------------------------------------------------

\* WiFiManager::saveCredentials: namespace wible_creds, keys ssid and pass
saveCredentials(prefs, ssid, password) ==
    [k \in {"ssid", "pass"} |-> IF k = "ssid" THEN ssid ELSE password]

\* WiFiManager::connect; linkUp says whether WiFi.status() reaches
\* WL_CONNECTED before the timeout
wifiConnect(wm, station, prefs, ssid, password, linkUp) ==
    IF ssid = <<>>
    THEN [station |-> station, prefs |-> prefs, success |-> FALSE]
    ELSE IF linkUp
    THEN [station |-> [status |-> "WL_CONNECTED", ssid |-> ssid, psk |-> password],
          prefs |-> IF wm.config.persistCredentials
                    THEN saveCredentials(prefs, ssid, password)
                    ELSE prefs,
          success |-> TRUE]
    ELSE [station |-> [status |-> "WL_DISCONNECTED", ssid |-> ssid, psk |-> password],
          prefs |-> prefs, success |-> FALSE]

\* WiFiManager::getConnectionInfo
getConnectionInfo(station) ==
    [ssid |-> IF station.status = "WL_CONNECTED" THEN station.ssid ELSE <<>>]

\* ------------------------------------------------------------------------
\* Frames a peer writes to the Credentials characteristic
\* ------------------------------------------------------------------------

SsidHome == <<78, 101, 116>>
PassHome == <<112, 119, 49>>

\* {"ssid":"<ssid>","pass":"<password>"}
credentialsJson(ssid, password) ==
    <<123>> \o KeySsid \o ssid \o <<34, 44>> \o KeyPass \o password \o <<34, 125>>

PeerIv == [i \in 1..16 |-> 100 + i]

\* IV(16) || AES-256-CBC(PKCS7(plaintext))
encryptedFrame(key, iv, plaintext) ==
    iv \o aesCbcEncrypt(key, iv, pkcs7Pad(plaintext, 16))

\* the key the peer holds: the device's current AES key once one was derived
peerKey(sec) == IF sec.aesKey # <<>> THEN sec.aesKey ELSE hash(<<1>>)

FrameKind == {"sealed", "garbled", "short", "plain", "sealedJunk"}

frameOf(kind, sec) ==
    CASE kind = "sealed" ->
            encryptedFrame(peerKey(sec), PeerIv, credentialsJson(SsidHome, PassHome))
      [] kind = "garbled" ->
            encryptedFrame(hash(<<2>>), PeerIv, credentialsJson(SsidHome, PassHome))
      [] kind = "short" -> PeerIv
      [] kind = "plain" -> credentialsJson(SsidHome, PassHome)
      [] kind = "sealedJunk" ->
            encryptedFrame(peerKey(sec), PeerIv, StrError)

\* ------------------------------------------------------------------------
\* Initial state: the objects after construction
\* ------------------------------------------------------------------------

\* StateManager(): the constructor leaves the scalar fields of context unset
UnsetContext ==
    { [lastError |-> "NONE", lastErrorMessage |-> "",
       stateEntryTime |-> 0, retryCount |-> 0],
      [lastError |-> "UNKNOWN_ERROR", lastErrorMessage |-> "",
       stateEntryTime |-> MaxTime, retryCount |-> 1] }

InitStateManager ==
    \E c \in UnsetContext :
        stateManager =
            [currentState |-> "IDLE", previousState |-> "IDLE",
             isInTransition |-> FALSE,
             context |-> c,
             transitions |-> <<>>,
             stateHistory |-> <<>>,
             entryCallback |-> "null",
             exitCallback |-> FALSE,
             transitionCallback |-> FALSE]

NoMessage == [iv |-> <<>>, ciphertext |-> <<>>]

\* the status byte no state maps to; also the advertising payload before any
\* status was broadcast
NoStatusByte == 255

Init ==
    /\ InitStateManager
    /\ securityManager = NewSecurityManager
    /\ wifiManager = [initialized |-> FALSE, config |-> [persistCredentials |-> FALSE]]
    /\ WiFi = [status |-> "WL_DISCONNECTED", ssid |-> <<>>, psk |-> <<>>]
    /\ preferences = <<>>
    /\ bleManager = [initialized |-> FALSE, dataReceivedCallback |-> FALSE,
                     disconnectionCallback |-> FALSE, connectionCallback |-> FALSE,
                     serverAdvertising |-> FALSE,
                     manufacturerData |-> NoStatusByte]
    /\ wible = [initialized |-> FALSE]
    /\ now = 0
    /\ evLog = <<>>
    /\ notified = <<>>
    /\ connects = <<>>
    /\ cryptoLog = <<>>
    /\ captured = NoMessage
    /\ usedIvs = {}

\* ------------------------------------------------------------------------
\* Actions
\* ------------------------------------------------------------------------

NoIo == notified' = <<>> /\ connects' = <<>> /\ cryptoLog' = <<>>

Devices == <<wifiManager, WiFi, preferences, bleManager, wible>>

\* millis() advances
Tick ==
    /\ now < MaxTime
    /\ now' = now + 1
    /\ evLog' = <<>>
    /\ NoIo
    /\ UNCHANGED <<stateManager, securityManager, Devices, captured, usedIvs>>

\* handleEvent(event) passes ""; only ERROR_OCCURRED reads the payload
DataFor(event) == IF event = "ERROR_OCCURRED" THEN EventData ELSE {""}

CanRun(sm) == Len(sm.stateHistory) <= MaxRun

\* ---- StateManager driven directly -------------------------------------

SMInitialize ==
    /\ stateManager' = smInitialize(stateManager, now)
    /\ evLog' = <<>>
    /\ NoIo
    /\ UNCHANGED <<securityManager, Devices, now, captured, usedIvs>>

SMHandleEvent ==
    /\ \E event \in StateEvent : \E data \in DataFor(event) :
         LET res == handleEvent(stateManager, event, data, now)
         IN  /\ CanRun(res.sm)
             /\ stateManager' = res.sm
             /\ evLog' = << EventCall(stateManager, event, data, res) >>
    /\ NoIo
    /\ UNCHANGED <<securityManager, Devices, now, captured, usedIvs>>

SMReset ==
    /\ LET res == smReset(stateManager, now)
       IN  /\ stateManager' = res.sm
           /\ evLog' = << EventCall([stateManager EXCEPT
                                        !.context = contextReset(stateManager.context, now),
                                        !.stateHistory = <<>>],
                                    "RESET_REQUESTED", "", res) >>
    /\ NoIo
    /\ UNCHANGED <<securityManager, Devices, now, captured, usedIvs>>

NextSM == Tick \/ SMInitialize \/ SMHandleEvent \/ SMReset

SpecSM == Init /\ [][NextSM]_vars

\* ---- StateManager driven directly, with callbacks registered -----------

\* the entry callbacks an application registers: one that only observes, one
\* that reports a failure by calling handleEvent(ERROR_OCCURRED)
EntryCallbacks == {"logs", "raises"}

\* the transitions an application adds: a new row with an action, and a row
\* under a key of the default table
CustomTransitions ==
    { withAction(StateTransition("IDLE", "INIT_REQUESTED", "BLE_ADVERTISING"), "logs"),
      withAction(StateTransition("IDLE", "START_ADVERTISING", "BLE_ADVERTISING"), "logs") }

SMOnStateEntry ==
    /\ \E callback \in EntryCallbacks :
         stateManager' = [stateManager EXCEPT !.entryCallback = callback]
    /\ evLog' = <<>>
    /\ NoIo
    /\ UNCHANGED <<securityManager, Devices, now, captured, usedIvs>>

SMOnStateExit ==
    /\ stateManager' = [stateManager EXCEPT !.exitCallback = TRUE]
    /\ evLog' = <<>>
    /\ NoIo
    /\ UNCHANGED <<securityManager, Devices, now, captured, usedIvs>>

SMOnStateTransition ==
    /\ stateManager' = [stateManager EXCEPT !.transitionCallback = TRUE]
    /\ evLog' = <<>>
    /\ NoIo
    /\ UNCHANGED <<securityManager, Devices, now, captured, usedIvs>>

SMAddTransition ==
    /\ \E tr \in CustomTransitions :
         stateManager' = [stateManager EXCEPT
                            !.transitions = addTransition(stateManager.transitions, tr)]
    /\ evLog' = <<>>
    /\ NoIo
    /\ UNCHANGED <<securityManager, Devices, now, captured, usedIvs>>

\* handleEvent while the history holds at most MaxHookRun states
SMHandleEventHooked ==
    /\ SMHandleEvent
    /\ Len(stateManager'.stateHistory) <= MaxHookRun

NextHooks ==
    \/ SMInitialize
    \/ SMOnStateEntry
    \/ SMOnStateExit
    \/ SMOnStateTransition
    \/ SMAddTransition
    \/ SMHandleEventHooked

SpecHooks == Init /\ [][NextHooks]_vars

\* ---- StateManager driven directly, with guarded transitions ------------

\* the transitions an application adds: rows under the keys of the two
\* catch-alls, with a guard that fails and one that passes, and a row under
\* a key of the default table
GuardedTransitions ==
    { withGuard(withAction(StateTransition("IDLE", "RESET_REQUESTED", "BLE_ADVERTISING"),
                           "logs"), "false"),
      withGuard(StateTransition("IDLE", "RESET_REQUESTED", "BLE_ADVERTISING"), "true"),
      withGuard(StateTransition("BLE_ADVERTISING", "ERROR_OCCURRED", "IDLE"), "false"),
      StateTransition("IDLE", "START_ADVERTISING", "ERROR") }

SMAddGuardedTransition ==
    /\ \E tr \in GuardedTransitions :
         stateManager' = [stateManager EXCEPT
                            !.transitions = addTransition(stateManager.transitions, tr)]
    /\ evLog' = <<>>
    /\ NoIo
    /\ UNCHANGED <<securityManager, Devices, now, captured, usedIvs>>

\* handleEvent while the history holds at most MaxGuardRun states
SMHandleEventGuarded ==
    /\ SMHandleEvent
    /\ Len(stateManager'.stateHistory) <= MaxGuardRun

NextGuards ==
    \/ SMInitialize
    \/ SMOnStateEntry
    \/ SMOnStateExit
    \/ SMOnStateTransition
    \/ SMAddGuardedTransition
    \/ SMHandleEventGuarded

SpecGuards == Init /\ [][NextGuards]_vars

\* ---- StateManager driven directly, for as long as the caller likes -----

\* events that can be handled over and over: the first row of the table,
\* the two catch-alls and recovery
RecurringEvents ==
    {"START_ADVERTISING", "RESET_REQUESTED", "ERROR_OCCURRED", "ERROR_RECOVERED"}

\* handleEvent(event), however many states the history holds
SMHandleRecurringEvent ==
    /\ \E event \in RecurringEvents :
         LET res == handleEvent(stateManager, event, "", now)
         IN  /\ stateManager' = res.sm
             /\ evLog' = << EventCall(stateManager, event, "", res) >>
    /\ NoIo
    /\ UNCHANGED <<securityManager, Devices, now, captured, usedIvs>>

NextHistory == SMInitialize \/ SMHandleRecurringEvent \/ SMReset

SpecHistory == Init /\ [][NextHistory]_vars

\* ---- SecurityManager driven directly ----------------------------------

NoFsm == evLog' = <<>> /\ notified' = <<>> /\ connects' = <<>>

\* peer public keys: a well-formed 32-byte key, none, a one-byte key, the
\* all-zero key, a 33-byte key
PeerPublicKeys ==
    { WriteBinary(PowMod(GroupG, 3, GroupP)), <<>>, <<5>>, WriteBinary(0),
      <<1>> \o WriteBinary(7) }

Plaintexts == { <<>>, StrError, credentialsJson(SsidHome, PassHome) }

\* the same message with its last ciphertext byte changed
tampered(msg) ==
    IF msg.ciphertext = <<>> THEN msg
    ELSE [msg EXCEPT !.ciphertext[Len(msg.ciphertext)] = (@ + 1) % 256]

CanDraw(sec) == sec.drbg <= MaxDraws

SecInitialize ==
    /\ securityManager' = secInitialize(securityManager)
    /\ cryptoLog' = <<>>
    /\ NoFsm
    /\ UNCHANGED <<stateManager, Devices, now, captured, usedIvs>>

SecGenerateKeyPair ==
    /\ LET res == generateKeyPair(securityManager, now)
       IN  CanDraw(res.sec) /\ securityManager' = res.sec
    /\ cryptoLog' = <<>>
    /\ NoFsm
    /\ UNCHANGED <<stateManager, Devices, now, captured, usedIvs>>

SecComputeSharedSecret ==
    /\ \E peerPublicKey \in PeerPublicKeys :
         LET res == computeSharedSecret(securityManager, peerPublicKey)
         IN  /\ securityManager' = res.sec
             /\ cryptoLog' = << [op |-> "computeSharedSecret", input |-> peerPublicKey,
                                 established |-> securityManager.sessionEstablished,
                                 result |-> res.ret] >>
    /\ NoFsm
    /\ UNCHANGED <<stateManager, Devices, now, captured, usedIvs>>

SecDeriveSessionKey ==
    /\ LET res == deriveSessionKey(securityManager, now)
       IN  /\ CanDraw(res.sec)
           /\ securityManager' = res.sec
           /\ cryptoLog' = << [op |-> "deriveSessionKey", input |-> <<>>,
                               established |-> securityManager.sessionEstablished,
                               result |-> res.ret] >>
    /\ NoFsm
    /\ UNCHANGED <<stateManager, Devices, now, captured, usedIvs>>

SecEncrypt ==
    /\ \E plaintext \in Plaintexts :
         LET res == encrypt(securityManager, plaintext)
         IN  /\ CanDraw(res.sec)
             /\ securityManager' = res.sec
             /\ cryptoLog' = << [op |-> "encrypt", input |-> plaintext,
                                 established |-> securityManager.sessionEstablished,
                                 result |-> res.msg] >>
             /\ captured' = IF messageIsValid(res.msg) THEN res.msg ELSE captured
             /\ usedIvs' = IF messageIsValid(res.msg)
                           THEN usedIvs \cup {<<securityManager.aesKey, res.msg.iv>>}
                           ELSE usedIvs
    /\ NoFsm
    /\ UNCHANGED <<stateManager, Devices, now>>

SecDecrypt ==
    /\ \E msg \in {captured, tampered(captured), NoMessage,
                   [iv |-> PeerIv, ciphertext |-> PeerIv]} :
         cryptoLog' = << [op |-> "decrypt", input |-> msg,
                          established |-> securityManager.sessionEstablished,
                          result |-> decrypt(securityManager, msg)] >>
    /\ NoFsm
    /\ UNCHANGED <<stateManager, securityManager, Devices, now, captured, usedIvs>>

SecTerminateSession ==
    /\ LET sec == terminateSession(securityManager, now)
       IN  CanDraw(sec) /\ securityManager' = sec
    /\ cryptoLog' = << [op |-> "terminateSession", input |-> <<>>,
                        established |-> securityManager.sessionEstablished,
                        result |-> TRUE] >>
    /\ NoFsm
    /\ UNCHANGED <<stateManager, Devices, now, captured, usedIvs>>

SecCleanup ==
    /\ securityManager' = secCleanup(securityManager)
    /\ cryptoLog' = << [op |-> "cleanup", input |-> <<>>,
                        established |-> securityManager.sessionEstablished,
                        result |-> TRUE] >>
    /\ NoFsm
    /\ UNCHANGED <<stateManager, Devices, now, captured, usedIvs>>

NextSec ==
    \/ SecInitialize
    \/ SecGenerateKeyPair
    \/ SecComputeSharedSecret
    \/ SecDeriveSessionKey
    \/ SecEncrypt
    \/ SecDecrypt
    \/ SecTerminateSession
    \/ SecCleanup

SpecSec == Init /\ [][NextSec]_vars

\* ---- SecurityManager driven directly, with the clock running -----------

\* millis() passes the expiry time of the session key in use
SessionOutlived ==
    /\ securityManager.sessionEstablished
    /\ now <= MaxTime
    /\ now' = securityManager.sessionKey.expiresAt + 1
    /\ evLog' = <<>>
    /\ NoIo
    /\ UNCHANGED <<stateManager, securityManager, Devices, captured, usedIvs>>

NextSecClock ==
    \/ SecInitialize
    \/ SecGenerateKeyPair
    \/ SecComputeSharedSecret
    \/ SecDeriveSessionKey
    \/ SecEncrypt
    \/ SecDecrypt
    \/ SecTerminateSession
    \/ SecCleanup
    \/ SessionOutlived

SpecSecClock == Init /\ [][NextSecClock]_vars

\* ---- SecurityManager decrypting what a key-holding peer sends ----------

\* 16-byte blocks by their last byte, the byte before it and a filler; they
\* cover a zero last byte, a last byte beyond the data, padding bytes that
\* differ from the last byte, and well-formed padding of 1, 2 and 16 bytes
PaddingBlocks ==
    { [i \in 1..16 |-> IF i = 16 THEN last ELSE IF i = 15 THEN mid ELSE fill] :
        last \in {0, 1, 2, 16, 17}, mid \in {2, 16}, fill \in {16, 65} }

\* the block sequences the peer encrypts: one block, or a filler block and one
BlockSequences ==
    PaddingBlocks \cup { [i \in 1..16 |-> 17] \o b : b \in PaddingBlocks }

\* decrypt of a message whose blocks decrypt to a sequence the peer chose
SecDecryptBlocks ==
    /\ securityManager.sessionEstablished
    /\ \E blocks \in BlockSequences :
         LET msg == [iv |-> PeerIv,
                     ciphertext |-> aesCbcEncrypt(peerKey(securityManager), PeerIv, blocks)]
         IN  cryptoLog' = << [op |-> "decrypt", input |-> msg,
                              established |-> securityManager.sessionEstablished,
                              result |-> decrypt(securityManager, msg)] >>
    /\ NoFsm
    /\ UNCHANGED <<stateManager, securityManager, Devices, now, captured, usedIvs>>

NextSecBlocks ==
    \/ SecInitialize
    \/ SecGenerateKeyPair
    \/ SecComputeSharedSecret
    \/ SecDeriveSessionKey
    \/ SecDecryptBlocks

SpecSecBlocks == Init /\ [][NextSecBlocks]_vars

\* ---- SecurityManager encrypting plaintexts of every block alignment ----

\* plaintexts of n bytes: short ones that end in a byte that reads as
\* padding, long ones counting up
SizedPlaintexts ==
    { [i \in 1..n |-> 1] : n \in {0, 1, 15, 16, 17, 32} }
    \cup { [i \in 1..16 |-> 16] }
    \cup { [i \in 1..n |-> i % 256] : n \in {MaxPlaintextLen - 1, MaxPlaintextLen} }

SecEncryptSized ==
    /\ securityManager.sessionEstablished
    /\ \E plaintext \in SizedPlaintexts :
         LET res == encrypt(securityManager, plaintext)
         IN  /\ CanDraw(res.sec)
             /\ securityManager' = res.sec
             /\ cryptoLog' = << [op |-> "encrypt", input |-> plaintext,
                                 established |-> securityManager.sessionEstablished,
                                 result |-> res.msg] >>
             /\ captured' = IF messageIsValid(res.msg) THEN res.msg ELSE captured
             /\ usedIvs' = IF messageIsValid(res.msg)
                           THEN usedIvs \cup {<<securityManager.aesKey, res.msg.iv>>}
                           ELSE usedIvs
    /\ NoFsm
    /\ UNCHANGED <<stateManager, Devices, now>>

NextSecSized ==
    \/ SecInitialize
    \/ SecGenerateKeyPair
    \/ SecComputeSharedSecret
    \/ SecDeriveSessionKey
    \/ SecEncryptSized

SpecSecSized == Init /\ [][NextSecSized]_vars

\* ---- The components as WiBLE::WiBLE assembles them ---------------------

\* the status byte WiBLE::handleStateTransition broadcasts for a state
statusByteOf(state) ==
    CASE state = "IDLE" -> 0
      [] state = "CONNECTING_WIFI" -> 1
      [] state = "PROVISIONED" -> 2
      [] state = "ERROR" -> 3
      [] OTHER -> NoStatusByte

\* WiBLE::handleStateTransition: the manufacturer data after it
handleStateTransition(ble, newState) ==
    IF ble.initialized /\ statusByteOf(newState) # NoStatusByte
    THEN [ble EXCEPT !.manufacturerData = statusByteOf(newState)]
    ELSE ble

\* StateManager::notifyTransition for each handleEvent call of a step, in order
RECURSIVE notifyTransitions(_, _, _)
notifyTransitions(sm, ble, calls) ==
    IF calls = <<>> THEN ble
    ELSE notifyTransitions(sm,
             IF Head(calls).ret /\ sm.transitionCallback
             THEN handleStateTransition(ble, Head(calls).after.currentState)
             ELSE ble,
             Tail(calls))

\* BLEManager::notify on the Status characteristic: it exists once
\* initializeServices ran
bleNotify(ble, notifications) == IF ble.initialized THEN notifications ELSE <<>>

\* events the integrating sketch forwards to StateManager::handleEvent
PlatformEvent ==
    {"BLE_CLIENT_CONNECTED", "BLE_CLIENT_DISCONNECTED", "AUTH_STARTED", "AUTH_SUCCESS"}

Characteristic == {"WIBLE_CRED_CHARACTERISTIC", "WIBLE_CONTROL_CHARACTERISTIC"}

\* one handleEvent call on the assembled system: the state manager and the
\* advertising payload after it, and the call as observed
fsmCall(sm, ble, event, t) ==
    LET res == handleEvent(sm, event, "", t)
        call == EventCall(sm, event, "", res)
    IN  [sm |-> res.sm, call |-> call, ble |-> notifyTransitions(sm, ble, <<call>>)]

\* WiBLE::begin
WiBLEBegin ==
    /\ ~wible.initialized
    /\ \E persistCredentials \in BOOLEAN :
         wifiManager' = [initialized |-> TRUE,
                         config |-> [persistCredentials |-> persistCredentials]]
    /\ stateManager' = [smInitialize(stateManager, now) EXCEPT !.transitionCallback = TRUE]
    /\ bleManager' = [bleManager EXCEPT !.initialized = TRUE,
                                        !.dataReceivedCallback = TRUE]
    /\ securityManager' = secInitialize(securityManager)
    /\ wible' = [wible EXCEPT !.initialized = TRUE]
    /\ evLog' = <<>>
    /\ NoIo
    /\ UNCHANGED <<WiFi, preferences, now, captured, usedIvs>>

\* WiBLE::startProvisioning
WiBLEStartProvisioning ==
    \/ /\ wible.initialized
       /\ \E r \in {fsmCall(stateManager, bleManager, "START_ADVERTISING", now)} :
            /\ CanRun(r.sm)
            /\ stateManager' = r.sm
            /\ evLog' = <<r.call>>
            /\ bleManager' = r.ble
       /\ NoIo
       /\ UNCHANGED <<securityManager, wifiManager, WiFi, preferences, wible, now, captured, usedIvs>>
    \/ /\ ~wible.initialized
       /\ evLog' = <<>>
       /\ NoIo
       /\ UNCHANGED <<stateManager, securityManager, Devices, now, captured, usedIvs>>

\* WiBLE::stopProvisioning
WiBLEStopProvisioning ==
    /\ wible.initialized
    /\ \E r \in {fsmCall(stateManager, bleManager, "STOP_ADVERTISING", now)} :
         /\ stateManager' = r.sm
         /\ evLog' = <<r.call>>
         /\ bleManager' = r.ble
    /\ NoIo
    /\ UNCHANGED <<securityManager, wifiManager, WiFi, preferences, wible, now, captured, usedIvs>>

\* WiBLE::clearProvisioning
WiBLEClearProvisioning ==
    /\ wible.initialized
    /\ \E r \in {fsmCall([stateManager EXCEPT
                            !.context = contextReset(stateManager.context, now),
                            !.stateHistory = <<>>],
                         bleManager, "RESET_REQUESTED", now)} :
         /\ stateManager' = r.sm
         /\ evLog' = <<r.call>>
         /\ bleManager' = r.ble
    /\ NoIo
    /\ UNCHANGED <<securityManager, wifiManager, WiFi, preferences, wible, now, captured, usedIvs>>

\* StateManager::handleEvent called by the sketch
StateManagerHandleEvent ==
    /\ wible.initialized
    /\ \E event \in PlatformEvent :
       \E r \in {fsmCall(stateManager, bleManager, event, now)} :
         /\ CanRun(r.sm)
         /\ stateManager' = r.sm
         /\ evLog' = <<r.call>>
         /\ bleManager' = r.ble
    /\ NoIo
    /\ UNCHANGED <<securityManager, wifiManager, WiFi, preferences, wible, now, captured, usedIvs>>

\* BLEManager::ServerCallbacks::onConnect: no connection callback is registered
BLEOnConnect ==
    /\ wible.initialized
    /\ evLog' = <<>>
    /\ NoIo
    /\ UNCHANGED <<stateManager, securityManager, Devices, now, captured, usedIvs>>

\* BLEManager::ServerCallbacks::onDisconnect: no disconnection callback is
\* registered; the server advertises again
BLEOnDisconnect ==
    /\ wible.initialized
    /\ bleManager' = [bleManager EXCEPT
                         !.serverAdvertising = IF bleManager.initialized THEN TRUE ELSE @]
    /\ evLog' = <<>>
    /\ NoIo
    /\ UNCHANGED <<stateManager, securityManager, wifiManager, WiFi, preferences,
                   wible, now, captured, usedIvs>>

\* BLEManager::CharacteristicCallbacks::onWrite, then
\* ProvisioningOrchestrator::processBLEData
BLEOnWrite ==
    /\ wible.initialized
    /\ \/ /\ \E characteristic \in Characteristic :
               ~bleManager.dataReceivedCallback \/ characteristic # "WIBLE_CRED_CHARACTERISTIC"
          /\ evLog' = <<>>
          /\ notified' = <<>>
          /\ connects' = <<>>
          /\ UNCHANGED <<stateManager, WiFi, preferences, bleManager>>
       \/ /\ bleManager.dataReceivedCallback
          /\ \E kind \in FrameKind :
               \E hc \in {handleCredentials(stateManager, securityManager,
                                            frameOf(kind, securityManager), now)} :
               \E wc \in IF hc.connect = <<>>
                         THEN {[station |-> WiFi, prefs |-> preferences, success |-> FALSE]}
                         ELSE {wifiConnect(wifiManager, WiFi, preferences, hc.connect[1].ssid,
                                           hc.connect[1].password, linkUp) : linkUp \in BOOLEAN} :
                  /\ CanRun(hc.sm)
                  /\ stateManager' = hc.sm
                  /\ evLog' = hc.calls
                  /\ notified' = bleNotify(bleManager, hc.notified)
                  /\ connects' = hc.connect
                  /\ WiFi' = wc.station
                  /\ preferences' = wc.prefs
                  /\ bleManager' = notifyTransitions(stateManager, bleManager, hc.calls)
    /\ cryptoLog' = <<>>
    /\ UNCHANGED <<securityManager, wifiManager, wible, now, captured, usedIvs>>

\* ProvisioningOrchestrator::onWiFiConnected with WiFiManager::getConnectionInfo
OrchestratorOnWiFiConnected ==
    /\ wible.initialized
    /\ \E r \in {fsmCall(stateManager, bleManager, "WIFI_CONNECTED", now)} :
         /\ CanRun(r.sm)
         /\ stateManager' = r.sm
         /\ evLog' = <<r.call>>
         /\ bleManager' = r.ble
    /\ notified' = bleNotify(bleManager,
                     << Notification(securityManager,
                            sendResponse(StrSuccess,
                                         StrConnectedTo \o getConnectionInfo(WiFi).ssid)) >>)
    /\ connects' = <<>>
    /\ cryptoLog' = <<>>
    /\ UNCHANGED <<securityManager, wifiManager, WiFi, preferences, wible, now, captured, usedIvs>>

\* ProvisioningOrchestrator::onWiFiDisconnected
OrchestratorOnWiFiDisconnected ==
    /\ wible.initialized
    /\ \E r \in {fsmCall(stateManager, bleManager, "WIFI_DISCONNECT", now)} :
         /\ stateManager' = r.sm
         /\ evLog' = <<r.call>>
         /\ bleManager' = r.ble
    /\ notified' = bleNotify(bleManager,
                     << Notification(securityManager,
                            sendResponse(StrError, StrWiFiDisconnected)) >>)
    /\ connects' = <<>>
    /\ cryptoLog' = <<>>
    /\ UNCHANGED <<securityManager, wifiManager, WiFi, preferences, wible, now, captured, usedIvs>>

\* SecurityManager calls the sketch makes, in the order of the key exchange:
\* a key pair when there is none, the peer's public key once per exchange,
\* the session key after it, and the end of a live session
CanDrawSystem(sec) == sec.drbg <= MaxSystemDraws

SystemGenerateKeyPair ==
    /\ wible.initialized
    /\ ~securityManager.keyPair.isValid
    /\ LET res == generateKeyPair(securityManager, now)
       IN  CanDrawSystem(res.sec) /\ securityManager' = res.sec
    /\ evLog' = <<>>
    /\ NoIo
    /\ UNCHANGED <<stateManager, Devices, now, captured, usedIvs>>

SystemComputeSharedSecret ==
    /\ wible.initialized
    /\ securityManager.keyPair.isValid
    /\ securityManager.sharedSecret = <<>>
    /\ ~securityManager.sessionEstablished
    /\ \E peerPublicKey \in {WriteBinary(PowMod(GroupG, 3, GroupP)), <<>>} :
         securityManager' = computeSharedSecret(securityManager, peerPublicKey).sec
    /\ evLog' = <<>>
    /\ NoIo
    /\ UNCHANGED <<stateManager, Devices, now, captured, usedIvs>>

SystemDeriveSessionKey ==
    /\ wible.initialized
    /\ LET res == deriveSessionKey(securityManager, now)
       IN  CanDrawSystem(res.sec) /\ securityManager' = res.sec
    /\ evLog' = <<>>
    /\ NoIo
    /\ UNCHANGED <<stateManager, Devices, now, captured, usedIvs>>

SystemTerminateSession ==
    /\ wible.initialized
    /\ securityManager.sessionEstablished
    /\ LET sec == terminateSession(securityManager, now)
       IN  CanDrawSystem(sec) /\ securityManager' = sec
    /\ evLog' = <<>>
    /\ NoIo
    /\ UNCHANGED <<stateManager, Devices, now, captured, usedIvs>>

\* the sketch calls begin() once, in setup(); the other operations run from
\* loop() and from the callbacks of the stacks begin() brought up
Next ==
    \/ WiBLEBegin
    \/ WiBLEStartProvisioning
    \/ WiBLEStopProvisioning
    \/ WiBLEClearProvisioning
    \/ StateManagerHandleEvent
    \/ BLEOnConnect
    \/ BLEOnDisconnect
    \/ BLEOnWrite
    \/ OrchestratorOnWiFiConnected
    \/ OrchestratorOnWiFiDisconnected
    \/ SystemGenerateKeyPair
    \/ SystemComputeSharedSecret
    \/ SystemDeriveSessionKey
    \/ SystemTerminateSession

Spec == Init /\ [][Next]_vars

\* ------------------------------------------------------------------------
\* Properties of the StateManager
\* ------------------------------------------------------------------------

\* the canonical transition table, as triples from / event / to
CanonicalTable ==
    { <<"IDLE", "START_ADVERTISING", "BLE_ADVERTISING">>,
      <<"BLE_ADVERTISING", "BLE_CLIENT_CONNECTED", "BLE_CONNECTED">>,
      <<"BLE_CONNECTED", "AUTH_STARTED", "AUTHENTICATING">>,
      <<"AUTHENTICATING", "AUTH_SUCCESS", "RECEIVING_CREDENTIALS">>,
      <<"RECEIVING_CREDENTIALS", "CREDENTIALS_RECEIVED", "CONNECTING_WIFI">>,
      <<"CONNECTING_WIFI", "WIFI_CONNECTED", "PROVISIONED">>,
      <<"CONNECTING_WIFI", "WIFI_CONNECTION_FAILED", "ERROR">>,
      <<"ERROR", "ERROR_RECOVERED", "IDLE">>,
      <<"BLE_CONNECTED", "BLE_CLIENT_DISCONNECTED", "BLE_ADVERTISING">>,
      <<"AUTHENTICATING", "BLE_CLIENT_DISCONNECTED", "BLE_ADVERTISING">>,
      <<"RECEIVING_CREDENTIALS", "BLE_CLIENT_DISCONNECTED", "BLE_ADVERTISING">> }

CanonicalKeys == { <<row[1], row[2]>> : row \in CanonicalTable }

\* initialize has registered the transitions of the object
Registered(sm) == sm.registered

\* C1: once initialize has registered the table, every handleEvent(E) called
\* in a state S with (S,E) a row of the canonical table returns true and
\* leaves the machine in that row's target.
C1_TableRowFires ==
    \A i \in DOMAIN evLog : \A row \in CanonicalTable :
        ( /\ Registered(evLog[i].before)
          /\ evLog[i].before.currentState = row[1]
          /\ evLog[i].event = row[2] )
        => ( evLog[i].ret /\ evLog[i].after.currentState = row[3] )

\* a table row was taken: WIFI_CONNECTED handled in CONNECTING_WIFI
C1_Witness ==
    /\ evLog # <<>>
    /\ Registered(evLog[1].before)
    /\ evLog[1].before.currentState = "CONNECTING_WIFI"
    /\ evLog[1].event = "WIFI_CONNECTED"
    /\ stateManager.currentState = "PROVISIONED"

\* C2: every handleEvent(E) called in a state S with (S,E) outside the
\* canonical table and E neither RESET_REQUESTED nor ERROR_OCCURRED returns
\* false and leaves the current state, the previous state, the history and
\* the state-entry time as they were.
C2_UnmatchedEventIgnored ==
    \A i \in DOMAIN evLog :
        ( /\ <<evLog[i].before.currentState, evLog[i].event>> \notin CanonicalKeys
          /\ evLog[i].event \notin {"RESET_REQUESTED", "ERROR_OCCURRED"} )
        => ( /\ ~evLog[i].ret
             /\ evLog[i].after.currentState = evLog[i].before.currentState
             /\ evLog[i].after.previousState = evLog[i].before.previousState
             /\ evLog[i].after.stateHistory = evLog[i].before.stateHistory
             /\ evLog[i].after.context.stateEntryTime
                  = evLog[i].before.context.stateEntryTime )

\* an unmatched event was handled in PROVISIONED at a time later than the
\* entry into that state
C2_Witness ==
    /\ evLog # <<>>
    /\ evLog[1].before.currentState = "PROVISIONED"
    /\ evLog[1].event = "BLE_CLIENT_DISCONNECTED"
    /\ ~evLog[1].ret
    /\ now > stateManager.context.stateEntryTime

\* C3: the current state becomes PROVISIONED only in a step in which
\* WIFI_CONNECTED is handled while the current state is CONNECTING_WIFI,
\* and the previous state is then CONNECTING_WIFI.
C3_ProvisionedOnlyViaWifiConnected ==
    [][ /\ ( /\ stateManager'.currentState = "PROVISIONED"
             /\ stateManager.currentState # "PROVISIONED" )
           => \E i \in DOMAIN evLog' :
                 /\ evLog'[i].event = "WIFI_CONNECTED"
                 /\ evLog'[i].before.currentState = "CONNECTING_WIFI"
                 /\ evLog'[i].after.currentState = "PROVISIONED"
                 /\ evLog'[i].after.previousState = "CONNECTING_WIFI"
        /\ \A i \in DOMAIN evLog' :
              ( evLog'[i].ret /\ evLog'[i].after.currentState = "PROVISIONED" )
              => ( /\ evLog'[i].event = "WIFI_CONNECTED"
                   /\ evLog'[i].before.currentState = "CONNECTING_WIFI" )
      ]_vars

\* PROVISIONED was entered from CONNECTING_WIFI
C3_Witness ==
    /\ stateManager.currentState = "PROVISIONED"
    /\ stateManager.previousState = "CONNECTING_WIFI"
    /\ evLog # <<>>
    /\ evLog[Len(evLog)].ret

\* C11: every handleEvent(RESET_REQUESTED), in whatever state it is called,
\* returns true and leaves the machine in IDLE.
C11_ResetReachesIdle ==
    \A i \in DOMAIN evLog :
        evLog[i].event = "RESET_REQUESTED"
        => ( evLog[i].ret /\ evLog[i].after.currentState = "IDLE" )

\* RESET_REQUESTED was handled in PROVISIONED, after a full run of the table
C11_Witness ==
    /\ evLog # <<>>
    /\ evLog[1].event = "RESET_REQUESTED"
    /\ Registered(evLog[1].before)
    /\ evLog[1].before.currentState = "PROVISIONED"
    /\ evLog[1].ret
    /\ stateManager.currentState = "IDLE"
    /\ stateManager.previousState = "PROVISIONED"

\* C12: every handleEvent(ERROR_OCCURRED, payload), in whatever state it is
\* called, returns true, leaves the machine in ERROR and leaves the payload
\* as the context's last error message.
C12_ErrorReachesError ==
    \A i \in DOMAIN evLog :
        evLog[i].event = "ERROR_OCCURRED"
        => ( /\ evLog[i].ret
             /\ evLog[i].after.currentState = "ERROR"
             /\ evLog[i].after.context.lastErrorMessage = evLog[i].data )

\* ERROR_OCCURRED was handled in ERROR itself, with a payload that differs
\* from the message stored before
C12_Witness ==
    /\ evLog # <<>>
    /\ evLog[1].event = "ERROR_OCCURRED"
    /\ evLog[1].before.currentState = "ERROR"
    /\ evLog[1].before.context.lastErrorMessage # evLog[1].data
    /\ evLog[1].data # ""
    /\ stateManager.currentState = "ERROR"
    /\ stateManager.context.lastErrorMessage = evLog[1].data

\* C14: every handleEvent(RESET_REQUESTED) called outside IDLE on an
\* initialized machine leaves it in IDLE with retry count 0, last error NONE
\* and an empty last error message.
C14_ResetClearsContext ==
    \A i \in DOMAIN evLog :
        ( /\ evLog[i].event = "RESET_REQUESTED"
          /\ Registered(evLog[i].before)
          /\ evLog[i].before.currentState # "IDLE" )
        => ( /\ evLog[i].after.currentState = "IDLE"
             /\ evLog[i].after.context.retryCount = 0
             /\ evLog[i].after.context.lastError = "NONE"
             /\ evLog[i].after.context.lastErrorMessage = "" )

\* ------------------------------------------------------------------------
\* Properties of the SecurityManager
\* ------------------------------------------------------------------------

\* C6: every decrypt called while no session is established returns the
\* empty result, whatever the message.
C6_NoDecryptOutsideSession ==
    \A i \in DOMAIN cryptoLog :
        ( cryptoLog[i].op = "decrypt" /\ ~cryptoLog[i].established )
        => cryptoLog[i].result = <<>>

\* a message encrypted in a session that has since been terminated is
\* replayed to decrypt and rejected
C6_Witness ==
    /\ cryptoLog # <<>>
    /\ cryptoLog[1].op = "decrypt"
    /\ ~cryptoLog[1].established
    /\ messageIsValid(captured)
    /\ cryptoLog[1].input = captured
    /\ cryptoLog[1].result = <<>>
    /\ securityManager.aesKey # <<>>
    /\ securityManager.sessionKey.key = <<>>

\* ------------------------------------------------------------------------
\* Properties of the assembled system
\* ------------------------------------------------------------------------

MidHandshake == {"BLE_CONNECTED", "AUTHENTICATING", "RECEIVING_CREDENTIALS"}

\* C4: when the BLE client disconnects while the state machine is in
\* BLE_CONNECTED, AUTHENTICATING or RECEIVING_CREDENTIALS, the state machine
\* is in BLE_ADVERTISING afterwards, no session is established and the
\* session key is empty.
C4_DisconnectEndsHandshake ==
    [][ ( BLEOnDisconnect /\ stateManager.currentState \in MidHandshake )
        => ( /\ stateManager'.currentState = "BLE_ADVERTISING"
             /\ ~isSessionEstablished(securityManager')
             /\ securityManager'.sessionKey.key = <<>> ) ]_vars

KeyedStates ==
    {"AUTHENTICATING", "RECEIVING_CREDENTIALS", "CONNECTING_WIFI",
     "VALIDATING_CONNECTION", "PROVISIONED"}

\* C5: in every reachable state the session key is non-empty exactly when
\* the state machine is in AUTHENTICATING, RECEIVING_CREDENTIALS,
\* CONNECTING_WIFI, VALIDATING_CONNECTION or PROVISIONED.
C5_KeyIffKeyedState ==
    securityManager.sessionKey.key # <<>> <=> stateManager.currentState \in KeyedStates

\* C7: every WiFiManager::connect call that a write to the Credentials
\* characteristic leads to is made while a session is established.
C7_CredentialsNeedSession ==
    \A i \in DOMAIN connects : connects[i].session

\* C8: no value in the key/value store equals the password the peer sent.
C8_NoPlaintextPasswordStored ==
    \A k \in DOMAIN preferences : preferences[k] # PassHome

\* C9: in the step that completes a provisioning (WIFI_CONNECTED taken into
\* PROVISIONED), no payload handed to BLEManager::notify contains the SSID
\* or the password as a substring.
C9_NoCredentialInNotification ==
    ( /\ evLog # <<>>
      /\ evLog[1].event = "WIFI_CONNECTED"
      /\ evLog[1].ret
      /\ evLog[1].after.currentState = "PROVISIONED"
      /\ connects = <<>> )
    => \A i \in DOMAIN notified :
           /\ ~Contains(notified[i].payload, SsidHome)
           /\ ~Contains(notified[i].payload, PassHome)

\* a payload that is IV || ciphertext under the session key
SealedStatus(sec, payload) ==
    /\ Len(payload) > 16
    /\ decrypt(sec, [iv |-> SubSeq(payload, 1, 16),
                     ciphertext |-> SubSeq(payload, 17, Len(payload))]) # <<>>

\* a payload that is the status JSON itself
PlaintextStatus(payload) ==
    /\ Len(payload) >= Len(StatusOpen)
    /\ SubSeq(payload, 1, Len(StatusOpen)) = StatusOpen

\* C10: every status notification emitted while a session is established is
\* a message encrypted under the session key and not the status JSON itself.
C10_StatusEncryptedInSession ==
    \A i \in DOMAIN notified :
        notified[i].session
        => ( /\ SealedStatus(securityManager, notified[i].payload)
             /\ ~PlaintextStatus(notified[i].payload) )

\* C13: after a reset (RESET_REQUESTED handled, as StateManager::reset and
\* WiBLE::clearProvisioning do) the machine is in IDLE, no session is
\* established and the session key is empty.
C13_ResetDropsSession ==
    \A i \in DOMAIN evLog :
        ( evLog[i].event = "RESET_REQUESTED" /\ evLog[i].ret )
        => ( /\ stateManager.currentState = "IDLE"
             /\ ~isSessionEstablished(securityManager)
             /\ securityManager.sessionKey.key = <<>> )

\* {"status":"SUCCESS","msg":"Connected to Net"}
SuccessConnectedToNet ==
    << 123, 34, 115, 116, 97, 116, 117, 115, 34, 58, 34, 83, 85, 67, 67,
       69, 83, 83, 34, 44, 34, 109, 115, 103, 34, 58, 34, 67, 111, 110,
       110, 101, 99, 116, 101, 100, 32, 116, 111, 32, 78, 101, 116, 34,
       125 >>

\* C15: (a) in RECEIVING_CREDENTIALS with a session established, a write of
\* IV || ciphertext that decrypts to valid credentials leaves the machine in
\* CONNECTING_WIFI, calls WiFiManager::connect once with the SSID and password
\* of the frame and emits no status; (b) when onWiFiConnected then runs in
\* CONNECTING_WIFI with the station connected, the machine is in PROVISIONED
\* and exactly one status was emitted, SUCCESS "Connected to <ssid>".
C15_HappyPath ==
    /\ ( /\ stateManager.currentState = "RECEIVING_CREDENTIALS"
         /\ isSessionEstablished(securityManager)
         /\ bleManager.dataReceivedCallback )
       => LET hc == handleCredentials(stateManager, securityManager,
                                      frameOf("sealed", securityManager), now)
          IN  /\ hc.sm.currentState = "CONNECTING_WIFI"
              /\ Len(hc.connect) = 1
              /\ hc.connect[1].ssid = SsidHome
              /\ hc.connect[1].password = PassHome
              /\ hc.notified = <<>>
    /\ ( /\ evLog # <<>>
         /\ evLog[1].event = "WIFI_CONNECTED"
         /\ evLog[1].before.currentState = "CONNECTING_WIFI"
         /\ WiFi.status = "WL_CONNECTED" )
       => ( /\ stateManager.currentState = "PROVISIONED"
            /\ Len(notified) = 1
            /\ notified[1].payload = SuccessConnectedToNet )

\* the run RECEIVING_CREDENTIALS, CONNECTING_WIFI, PROVISIONED was completed
\* by onWiFiConnected, with a session established and the station connected
\* with the credentials of the frame
C15_Witness ==
    /\ evLog # <<>>
    /\ evLog[1].event = "WIFI_CONNECTED"
    /\ evLog[1].before.currentState = "CONNECTING_WIFI"
    /\ evLog[1].before.previousState = "RECEIVING_CREDENTIALS"
    /\ stateManager.currentState = "PROVISIONED"
    /\ isSessionEstablished(securityManager)
    /\ WiFi = [status |-> "WL_CONNECTED", ssid |-> SsidHome, psk |-> PassHome]
    /\ Len(notified) = 1
    /\ notified[1].session

\* C16: when a credentials write arrives in RECEIVING_CREDENTIALS with a
\* session established and decrypt reports failure, an ERROR status
\* "Decryption failed" is emitted, WiFiManager::connect is not called and the
\* machine is still in RECEIVING_CREDENTIALS.
C16_FailedDecryptStaysReceiving ==
    ( /\ stateManager.currentState = "RECEIVING_CREDENTIALS"
      /\ isSessionEstablished(securityManager)
      /\ bleManager.dataReceivedCallback
      /\ LET data == frameOf("garbled", securityManager)
         IN  /\ Len(data) > 16
             /\ decrypt(securityManager,
                        [iv |-> SubSeq(data, 1, 16),
                         ciphertext |-> SubSeq(data, 17, Len(data))]) = <<>> )
    => LET hc == handleCredentials(stateManager, securityManager,
                                   frameOf("garbled", securityManager), now)
       IN  /\ Len(hc.notified) = 1
           /\ Contains(hc.notified[1].payload, StrDecryptionFailed)
           /\ hc.connect = <<>>
           /\ hc.sm.currentState = "RECEIVING_CREDENTIALS"

\* a credentials write ended in a decrypt or a parse failure
WriteFailed(hc) ==
    /\ Len(hc.notified) = 1
    /\ \/ Contains(hc.notified[1].payload, StrDecryptionFailed)
       \/ Contains(hc.notified[1].payload, StrInvalidFormat)

\* C17: when three credentials writes in a row fail (decrypt or parse) within
\* one session, the third one fires ERROR_OCCURRED and leaves the machine in
\* ERROR.
C17_ThreeFailuresEscalate ==
    ( /\ wible.initialized
      /\ bleManager.dataReceivedCallback
      /\ isSessionEstablished(securityManager) )
    => \A k1, k2, k3 \in {"garbled", "sealedJunk"} :
         LET h1 == handleCredentials(stateManager, securityManager,
                                     frameOf(k1, securityManager), now)
             h2 == handleCredentials(h1.sm, securityManager,
                                     frameOf(k2, securityManager), now)
             h3 == handleCredentials(h2.sm, securityManager,
                                     frameOf(k3, securityManager), now)
         IN  ( WriteFailed(h1) /\ WriteFailed(h2) /\ WriteFailed(h3) )
             => ( /\ \E i \in DOMAIN h3.calls : h3.calls[i].event = "ERROR_OCCURRED"
                  /\ h3.sm.currentState = "ERROR" )

\* C18: when valid credentials were accepted (machine in CONNECTING_WIFI) and
\* WiFiManager::connect has returned failure, WIFI_CONNECTION_FAILED was fired
\* and the machine is in ERROR.
C18_ConnectFailureReachesError ==
    ( /\ connects # <<>>
      /\ connects[1].state = "CONNECTING_WIFI"
      /\ WiFi.status # "WL_CONNECTED" )
    => ( /\ \E i \in DOMAIN evLog : evLog[i].event = "WIFI_CONNECTION_FAILED"
         /\ stateManager.currentState = "ERROR" )

\* C19: when onWiFiDisconnected has run while the machine had not reached
\* PROVISIONED, ERROR_OCCURRED was fired and the machine is in ERROR.
C19_EarlyDisconnectEscalates ==
    ( /\ evLog # <<>>
      /\ evLog[1].event = "WIFI_DISCONNECT"
      /\ evLog[1].before.currentState # "PROVISIONED" )
    => ( /\ \E i \in DOMAIN evLog : evLog[i].event = "ERROR_OCCURRED"
         /\ stateManager.currentState = "ERROR" )

\* C20: a step in which WiFiManager::saveCredentials runs (connect succeeded
\* with persistCredentials set, or the store changed) is taken with the
\* machine in PROVISIONED and persistCredentials set.
C20_SaveOnlyWhenProvisioned ==
    [][ ( \/ preferences' # preferences
          \/ /\ connects' # <<>>
             /\ WiFi'.status = "WL_CONNECTED"
             /\ wifiManager.config.persistCredentials )
        => ( /\ stateManager'.currentState = "PROVISIONED"
             /\ wifiManager.config.persistCredentials ) ]_vars

\* the states between a client's connection and the end of provisioning
HandshakeStates ==
    {"BLE_CONNECTED", "AUTHENTICATING", "RECEIVING_CREDENTIALS", "CONNECTING_WIFI"}

\* C21: CONNECTION_TIMEOUT or PROVISIONING_TIMEOUT handled in a handshake
\* state (BLE_CONNECTED, AUTHENTICATING, RECEIVING_CREDENTIALS,
\* CONNECTING_WIFI) returns true and the machine leaves that state.
C21_TimeoutCancels ==
    \A i \in DOMAIN evLog :
        ( /\ evLog[i].event \in {"CONNECTION_TIMEOUT", "PROVISIONING_TIMEOUT"}
          /\ Registered(evLog[i].before)
          /\ evLog[i].before.currentState \in HandshakeStates )
        => ( /\ evLog[i].ret
             /\ evLog[i].after.currentState # evLog[i].before.currentState )

\* ------------------------------------------------------------------------
\* Properties of the SecurityManager: session end, expiry, padding, IVs
\* ------------------------------------------------------------------------

\* the session key material is wiped and no session is established
SessionWiped(sec) ==
    /\ sec.sessionKey.key = <<>>
    /\ sec.sessionKey.iv = <<>>
    /\ sec.sessionKey.sessionId = ""
    /\ ~isSessionEstablished(sec)

\* the key pair of after was generated by the call that led from before
FreshKeyPair(before, after) ==
    /\ after.keyPair.isValid
    /\ after.d # before.d
    /\ after.keyPair.publicKey # <<>>
    /\ after.keyPair.publicKey # before.keyPair.publicKey

isExpired(sk, t) == t > sk.expiresAt

\* C23: once millis() is past the expiry time of the session key, encrypt
\* called in the session returns a message without ciphertext and decrypt
\* returns the empty result.
C23_ExpiredSessionRefused ==
    \A i \in DOMAIN cryptoLog :
        ( /\ cryptoLog[i].op \in {"encrypt", "decrypt"}
          /\ cryptoLog[i].established
          /\ isExpired(securityManager.sessionKey, now) )
        => IF cryptoLog[i].op = "encrypt"
           THEN cryptoLog[i].result.ciphertext = <<>>
           ELSE cryptoLog[i].result = <<>>

\* the padding of a decrypted block sequence is invalid: its last byte N is
\* 0, or greater than the length, or one of the last N bytes differs from N
InvalidPadding(data) ==
    LET n == data[Len(data)]
    IN  \/ n = 0
        \/ n > Len(data)
        \/ \E i \in 0..(n - 1) : data[Len(data) - i] # n

\* the block sequence the AES context of sec decrypts msg to
DecryptedBlocks(sec, msg) == aesCbcDecrypt(sec.aesKey, msg.iv, msg.ciphertext)

\* C24: decrypt, called in a session on whole blocks, returns the empty
\* result whenever the padding of the decrypted blocks is invalid, and what
\* it returns otherwise is the decrypted data without its padding, never a
\* part of data whose padding was rejected.
C24_PlaintextOnlyOnValidPadding ==
    \A i \in DOMAIN cryptoLog :
        ( /\ cryptoLog[i].op = "decrypt"
          /\ cryptoLog[i].established
          /\ messageIsValid(cryptoLog[i].input)
          /\ Len(cryptoLog[i].input.ciphertext) % 16 = 0 )
        => LET data == DecryptedBlocks(securityManager, cryptoLog[i].input)
           IN  IF InvalidPadding(data)
               THEN cryptoLog[i].result = <<>>
               ELSE cryptoLog[i].result = SubSeq(data, 1, Len(data) - data[Len(data)])

\* a peer holding the key sent two blocks whose last byte announces 2 bytes
\* of padding while the byte before it is not 2: decrypt returned nothing
C24_Witness ==
    /\ cryptoLog # <<>>
    /\ cryptoLog[1].op = "decrypt"
    /\ cryptoLog[1].established
    /\ LET data == DecryptedBlocks(securityManager, cryptoLog[1].input)
       IN  /\ Len(data) = 32
           /\ data[32] = 2
           /\ data[31] = 16
    /\ cryptoLog[1].result = <<>>

\* the smallest multiple of 16 strictly greater than n
PaddedLength(n) == ((n \div 16) + 1) * 16

HookRank(hook) ==
    CASE hook = "exit" -> 1
      [] hook = "action" -> 2
      [] hook = "transition" -> 3
      [] hook = "entry" -> 4

\* the hooks of the transition a handleEvent call itself made: those up to
\* and including the first entry hook (an entry callback may make more)
OuterHooks(hooks) ==
    LET entries == { k \in DOMAIN hooks : hooks[k].hook = "entry" }
    IN  IF entries = {} THEN hooks
        ELSE SubSeq(hooks, 1, CHOOSE k \in entries : \A l \in entries : k <= l)

HooksOfKind(hooks, kind) == { k \in DOMAIN hooks : hooks[k].hook = kind }

\* C27: in every successful transition the exit hook of the old state, the
\* transition action and the entry hook of the new state run in that order,
\* and the listener registered with onStateTransition is called within the
\* handleEvent call exactly once per transition, after the exit hook and
\* before the entry hook.
C27_HookOrder ==
    \A i \in DOMAIN evLog :
        evLog[i].ret
        => LET outer == OuterHooks(evLog[i].hooks)
               b == evLog[i].before
           IN  /\ \A j, k \in DOMAIN outer :
                     j < k => HookRank(outer[j].hook) < HookRank(outer[k].hook)
               /\ Cardinality(HooksOfKind(outer, "exit")) = IF b.exitCallback THEN 1 ELSE 0
               /\ Cardinality(HooksOfKind(outer, "transition"))
                     = IF b.transitionCallback THEN 1 ELSE 0
               /\ Cardinality(HooksOfKind(outer, "entry"))
                     = IF b.entryCallback # "null" THEN 1 ELSE 0
               /\ \A k \in DOMAIN outer :
                     /\ outer[k].hook = "exit" => outer[k].state = b.currentState
                     /\ outer[k].hook = "transition"
                           => /\ outer[k].from = b.currentState
                              /\ outer[k].event = evLog[i].event
                              /\ \A l \in HooksOfKind(outer, "entry") :
                                    outer[l].state = outer[k].state
                     /\ outer[k].inTransition

\* a transition with an action ran with all three callbacks registered:
\* exit hook, action, listener and entry hook were called, in that order
C27_Witness ==
    /\ evLog # <<>>
    /\ evLog[1].ret
    /\ evLog[1].event = "INIT_REQUESTED"
    /\ stateManager.currentState = "BLE_ADVERTISING"
    /\ Len(evLog[1].hooks) = 4
    /\ evLog[1].hooks[1].hook = "exit"
    /\ evLog[1].hooks[2].hook = "action"
    /\ evLog[1].hooks[3].hook = "transition"
    /\ evLog[1].hooks[4].hook = "entry"
    /\ evLog[1].hooks[1].state = "IDLE"
    /\ evLog[1].hooks[4].state = "BLE_ADVERTISING"

\* C28: whenever the listener registered with onStateTransition is called
\* with (from, to, event), getCurrentState() already returns to.
C28_ListenerSeesNewState ==
    \A i \in DOMAIN evLog :
        \A k \in DOMAIN evLog[i].hooks :
            evLog[i].hooks[k].hook = "transition"
            => evLog[i].hooks[k].current = evLog[i].hooks[k].state

\* C29: when the entry callback of the state a transition enters calls
\* handleEvent(ERROR_OCCURRED) from inside, the outer handleEvent returns
\* true, the machine is in ERROR, the history ends with the entered state
\* followed by ERROR, and isTransitioning() is false.
C29_EntryHookErrorKeepsTransition ==
    \A i \in DOMAIN evLog :
        LET outer == OuterHooks(evLog[i].hooks)
            after == evLog[i].after
            n == Len(after.stateHistory)
        IN  ( /\ evLog[i].before.entryCallback = "raises"
              /\ outer # <<>>
              /\ outer[Len(outer)].hook = "entry"
              /\ outer[Len(outer)].state # "ERROR" )
            => ( /\ evLog[i].ret
                 /\ after.currentState = "ERROR"
                 /\ after.previousState = outer[Len(outer)].state
                 /\ n >= 2
                 /\ after.stateHistory[n - 1] = outer[Len(outer)].state
                 /\ after.stateHistory[n] = "ERROR"
                 /\ ~after.isInTransition )

\* START_ADVERTISING was handled in IDLE with an entry callback that raises
\* ERROR_OCCURRED on entering BLE_ADVERTISING
C29_Witness ==
    /\ evLog # <<>>
    /\ evLog[1].event = "START_ADVERTISING"
    /\ evLog[1].before.currentState = "IDLE"
    /\ evLog[1].before.entryCallback = "raises"
    /\ evLog[1].ret
    /\ stateManager.currentState = "ERROR"
    /\ stateManager.previousState = "BLE_ADVERTISING"
    /\ stateManager.stateHistory = <<"BLE_ADVERTISING", "ERROR">>
    /\ ~stateManager.isInTransition

\* the last k elements of s
LastOf(s, k) == [j \in 1..k |-> s[Len(s) - k + j]]

MinInt(a, b) == IF a <= b THEN a ELSE b

\* C30: the history holds at most 10 states; every successful handleEvent
\* appends the state entered and drops the oldest state beyond 10, every
\* other call leaves the history alone; a non-empty history ends with the
\* current state; and getStateHistory(n) is the last min(n, size) states.
C30_HistoryRing ==
    /\ Len(stateManager.stateHistory) <= 10
    /\ stateManager.stateHistory # <<>>
       => stateManager.stateHistory[Len(stateManager.stateHistory)]
             = stateManager.currentState
    /\ \A i \in DOMAIN evLog :
          LET pushed == Append(evLog[i].before.stateHistory, evLog[i].after.currentState)
          IN  IF evLog[i].ret
              THEN evLog[i].after.stateHistory = LastOf(pushed, MinInt(Len(pushed), 10))
              ELSE evLog[i].after.stateHistory = evLog[i].before.stateHistory
    /\ \A n \in 0..(maxHistorySize + 1) :
          getStateHistory(stateManager, n)
             = LastOf(stateManager.stateHistory,
                      MinInt(n, Len(stateManager.stateHistory)))

\* an eleventh state was entered: the history still holds 10 states and the
\* oldest was dropped
C30_Witness ==
    /\ evLog # <<>>
    /\ evLog[1].ret
    /\ Len(evLog[1].before.stateHistory) = 10
    /\ Len(stateManager.stateHistory) = 10
    /\ stateManager.stateHistory[1] = evLog[1].before.stateHistory[2]
    /\ stateManager.stateHistory[1] # evLog[1].before.stateHistory[1]
    /\ stateManager.stateHistory[10] = stateManager.currentState

\* ------------------------------------------------------------------------
\* The user callbacks of WiBLE
\* ------------------------------------------------------------------------

\* WiBLE::handleStateTransition with an error callback registered by
\* onError: the calls it makes to it when told of newState
errorCallbackCalls(newState) ==
    IF newState = "ERROR"
    THEN << [error |-> "UNKNOWN_ERROR", canRetry |-> FALSE] >>
    ELSE <<>>

\* the error callback calls made during one handleEvent call: the listener
\* WiBLE::begin registers passes each notified transition's target on
RECURSIVE errorCallsOfHooks(_)
errorCallsOfHooks(hooks) ==
    IF hooks = <<>> THEN <<>>
    ELSE (IF Head(hooks).hook = "transition"
          THEN errorCallbackCalls(Head(hooks).state) ELSE <<>>)
         \o errorCallsOfHooks(Tail(hooks))

\* C31: a transition into ERROR calls the error callback with
\* can_retry = false, and an error that sends the machine back to
\* BLE_ADVERTISING (a disconnect in the middle of the handshake) calls it
\* with can_retry = true.
C31_ErrorCallbackFires ==
    \A i \in DOMAIN evLog :
        LET call == evLog[i]
            errors == errorCallsOfHooks(call.hooks)
        IN  /\ (call.ret /\ call.after.currentState = "ERROR")
               => \E k \in DOMAIN errors : ~errors[k].canRetry
            /\ (call.ret /\ call.event = "BLE_CLIENT_DISCONNECTED"
                         /\ call.before.currentState \in HandshakeStates
                         /\ call.after.currentState = "BLE_ADVERTISING")
               => \E k \in DOMAIN errors : errors[k].canRetry

\* WiBLE::handleStateTransition with a callback registered by onStateChange:
\* the calls it makes to it when told of newState
stateChangeCallbackCalls(newState) ==
    << [oldState |-> "IDLE", newState |-> newState] >>

\* the state-change callback calls made during one handleEvent call
RECURSIVE stateChangeCallsOfHooks(_)
stateChangeCallsOfHooks(hooks) ==
    IF hooks = <<>> THEN <<>>
    ELSE (IF Head(hooks).hook = "transition"
          THEN stateChangeCallbackCalls(Head(hooks).state) ELSE <<>>)
         \o stateChangeCallsOfHooks(Tail(hooks))

\* C40: once begin has run, every handleEvent call that makes a transition
\* calls the onStateChange callback exactly once, with (oldState, newState)
\* equal to the transition's (from, to), and a call that makes none does
\* not call it.
C40_StateChangeCallbackPerTransition ==
    \A i \in DOMAIN evLog :
        evLog[i].before.transitionCallback
        => stateChangeCallsOfHooks(evLog[i].hooks)
             = IF evLog[i].ret
               THEN << [oldState |-> evLog[i].before.currentState,
                        newState |-> evLog[i].after.currentState] >>
               ELSE <<>>

\* ------------------------------------------------------------------------
\* Properties of the StateManager: rejected events, catch-alls, the table
\* ------------------------------------------------------------------------

\* C32: a handleEvent call that returns false leaves current state,
\* previous state, history and state-entry time as they were, and calls
\* neither the exit callback, the transition action, the transition
\* listener nor the entry callback.
C32_RejectedEventChangesNothing ==
    \A i \in DOMAIN evLog :
        ~evLog[i].ret
        => ( /\ evLog[i].after.currentState = evLog[i].before.currentState
             /\ evLog[i].after.previousState = evLog[i].before.previousState
             /\ evLog[i].after.stateHistory = evLog[i].before.stateHistory
             /\ evLog[i].after.context.stateEntryTime
                  = evLog[i].before.context.stateEntryTime
             /\ evLog[i].hooks = <<>> )

\* a guard failed with every callback registered and an action on the row;
\* and no rule matched with every callback registered
C32_Witness ==
    /\ evLog # <<>>
    /\ ~evLog[1].ret
    /\ evLog[1].before.entryCallback # "null"
    /\ evLog[1].before.exitCallback
    /\ evLog[1].before.transitionCallback
    /\ <<evLog[1].before.currentState, evLog[1].event>> \in DOMAIN stateManager.transitions
    /\ stateManager.transitions[<<evLog[1].before.currentState, evLog[1].event>>].action # "null"
    /\ stateManager.transitions[<<evLog[1].before.currentState, evLog[1].event>>].guard = "false"

\* the state a handleEvent call that returned true entered first
EnteredFirst(call) == call.after.stateHistory[Len(call.before.stateHistory) + 1]

\* C33: for RESET_REQUESTED and ERROR_OCCURRED, with no row registered for
\* (current state, event) the call returns true and enters IDLE / ERROR;
\* with a row registered the row decides: if its guard passes the call
\* returns true and enters the row's target, if its guard fails the call
\* returns false and the machine stays where it is.
C33_CatchAllOnlyWithoutRow ==
    \A i \in DOMAIN evLog :
        LET call == evLog[i]
            key == <<call.before.currentState, call.event>>
        IN  call.event \in {"RESET_REQUESTED", "ERROR_OCCURRED"}
            => IF key \in DOMAIN stateManager.transitions
               THEN IF canTransition(stateManager.transitions[key])
                    THEN /\ call.ret
                         /\ EnteredFirst(call) = stateManager.transitions[key].toState
                    ELSE /\ ~call.ret
                         /\ call.after.currentState = call.before.currentState
               ELSE /\ call.ret
                    /\ EnteredFirst(call)
                         = IF call.event = "RESET_REQUESTED" THEN "IDLE" ELSE "ERROR"

\* RESET_REQUESTED was refused in IDLE by the failing guard of a registered
\* row, although the catch-all would have accepted it
C33_Witness ==
    /\ evLog # <<>>
    /\ evLog[1].event = "RESET_REQUESTED"
    /\ evLog[1].before.currentState = "IDLE"
    /\ <<"IDLE", "RESET_REQUESTED">> \in DOMAIN stateManager.transitions
    /\ stateManager.transitions[<<"IDLE", "RESET_REQUESTED">>].guard = "false"
    /\ ~evLog[1].ret
    /\ stateManager.currentState = "IDLE"

\* C34: the table holds one transition per (state, event) pair, stored
\* under the pair it is for, and a pair that has a transition keeps that
\* transition whatever is registered afterwards, by addTransition or by
\* initialize.
C34_OneTransitionPerPair ==
    [][ /\ \A key \in DOMAIN stateManager.transitions :
             /\ key \in DOMAIN stateManager'.transitions
             /\ stateManager'.transitions[key] = stateManager.transitions[key]
        /\ \A key \in DOMAIN stateManager'.transitions :
             /\ stateManager'.transitions[key].fromState = key[1]
             /\ stateManager'.transitions[key].event = key[2] ]_vars

\* the application's row for (IDLE, START_ADVERTISING) was registered
\* first and is in effect after initialize registered the default table,
\* which has a row for the same pair: START_ADVERTISING in IDLE entered
\* ERROR
C34_Witness ==
    /\ <<"ERROR", "ERROR_RECOVERED">> \in DOMAIN stateManager.transitions
    /\ <<"IDLE", "START_ADVERTISING">> \in DOMAIN stateManager.transitions
    /\ stateManager.transitions[<<"IDLE", "START_ADVERTISING">>].toState = "ERROR"
    /\ evLog # <<>>
    /\ evLog[1].event = "START_ADVERTISING"
    /\ evLog[1].before.currentState = "IDLE"
    /\ evLog[1].ret
    /\ stateManager.currentState = "ERROR"

\* ------------------------------------------------------------------------
\* Properties of the SecurityManager: key agreement
\* ------------------------------------------------------------------------

\* C35: deriveSessionKey returns true exactly when a shared secret is
\* pending; when it returns true the session is established, the shared
\* secret is empty and a second deriveSessionKey would return false and
\* change nothing; when it returns false the object is unchanged.
C35_DeriveNeedsPendingSecret ==
    [][ ( cryptoLog' # <<>> /\ cryptoLog'[1].op = "deriveSessionKey" )
        => /\ cryptoLog'[1].result = (securityManager.sharedSecret # <<>>)
           /\ cryptoLog'[1].result
              => /\ isSessionEstablished(securityManager')
                 /\ securityManager'.sharedSecret = <<>>
                 /\ ~deriveSessionKey(securityManager', now).ret
                 /\ deriveSessionKey(securityManager', now).sec = securityManager'
           /\ ~cryptoLog'[1].result
              => securityManager' = securityManager ]_vars

\* a second deriveSessionKey was refused while the session of the first is
\* established
C35_Witness ==
    /\ cryptoLog # <<>>
    /\ cryptoLog[1].op = "deriveSessionKey"
    /\ ~cryptoLog[1].result
    /\ cryptoLog[1].established
    /\ isSessionEstablished(securityManager)
    /\ securityManager.sessionKey.key # <<>>

\* C36: computeSharedSecret returns false for every peer public key that is
\* not 32 bytes long, and then stores no shared secret: a deriveSessionKey
\* that follows establishes a session only from a secret that was pending
\* before.
C36_MalformedPeerKeyRejected ==
    [][ ( /\ cryptoLog' # <<>>
          /\ cryptoLog'[1].op = "computeSharedSecret"
          /\ Len(cryptoLog'[1].input) # MpiSize )
        => /\ ~cryptoLog'[1].result
           /\ securityManager'.sharedSecret = securityManager.sharedSecret ]_vars

\* C39: isSessionEstablished() is true exactly when the session key is not
\* empty, and a session key that is not empty is 32 bytes long.
C39_EstablishedIffSessionKey ==
    /\ isSessionEstablished(securityManager) <=> securityManager.sessionKey.key # <<>>
    /\ securityManager.sessionKey.key # <<>> => Len(securityManager.sessionKey.key) = 32

\* an established session was ended by terminateSession: the flag is down
\* and the key is gone, while the AES context still holds the old key
C39_Witness ==
    /\ cryptoLog # <<>>
    /\ cryptoLog[1].op = "terminateSession"
    /\ cryptoLog[1].established
    /\ ~isSessionEstablished(securityManager)
    /\ securityManager.sessionKey.key = <<>>
    /\ securityManager.aesKey # <<>>

\* ------------------------------------------------------------------------
\* Properties of the orchestrator: protocol order
\* ------------------------------------------------------------------------

\* C37: every WiFiManager::connect call that a write to the Credentials
\* characteristic leads to is made after handleEvent(CREDENTIALS_RECEIVED)
\* returned true for that write, with the machine in CONNECTING_WIFI.
C37_ConnectOnlyInProtocolOrder ==
    \A i \in DOMAIN connects :
        /\ connects[i].accepted
        /\ connects[i].state = "CONNECTING_WIFI"

\* whether a status payload reports SUCCESS
IsSuccessStatus(payload) ==
    /\ Len(payload) >= Len(StatusOpen \o StrSuccess)
    /\ SubSeq(payload, 1, Len(StatusOpen \o StrSuccess)) = StatusOpen \o StrSuccess

\* C38: every SUCCESS status notification is emitted by a step whose
\* handleEvent(WIFI_CONNECTED) returned true and that leaves the machine in
\* PROVISIONED.
C38_SuccessOnlyWhenProvisioned ==
    \A n \in DOMAIN notified :
        IsSuccessStatus(notified[n].payload)
        => /\ evLog # <<>>
           /\ evLog[1].event = "WIFI_CONNECTED"
           /\ evLog[1].ret
           /\ stateManager.currentState = "PROVISIONED"

====
